---- MODULE Spec2Model ----
(***************************************************************************)
(* A model of pyparams (src/pyparams/__init__.py): the parameter           *)
(* descriptor Param, the registry Conf and the four-source merge acquire.  *)
(*                                                                         *)
(* Representation of Python data:                                          *)
(*  - a Python str is a sequence of one-character strings, so that         *)
(*    upper(), strip(), split(), int() and startswith() are computed on    *)
(*    the characters;                                                      *)
(*  - a dynamically typed Python value is a record [t, v]: the tag t is    *)
(*    "none", "str", "int", "bool", "list", "tuple" or "dict" and v the    *)
(*    payload;                                                             *)
(*  - an exception is a record [cls, msg]; msg is the sequence of text     *)
(*    fragments whose concatenation is the Python message;                 *)
(*  - Param objects live in the heap objs (allocation order), and the two  *)
(*    dicts of Conf hold references (indices) into it, as Python dicts     *)
(*    hold references to objects.                                          *)
(***************************************************************************)
EXTENDS Integers, Sequences, FiniteSets, TLC

VARIABLES
    objs,                        \* heap of Param objects: their fields but value
    value,                       \* value[i]: Param.value of objs[i]
    params,                      \* Conf.params: name -> reference
    params_by_conffile_name,     \* Conf.params_by_conffile_name: key -> reference
    all_short_opts_so_far,       \* Conf._all_short_opts_so_far
    all_long_opts_so_far,        \* Conf._all_long_opts_so_far
    default_allow_unset_values,  \* Conf.default_allow_unset_values
    config_file,                 \* Conf.config_file (set by _process_config_file)
    doc_section_order,           \* Conf.doc_section_order
    last                         \* the last API call: operation and how it ended

vars == <<objs, value, params, params_by_conffile_name, all_short_opts_so_far,
          all_long_opts_so_far, default_allow_unset_values, config_file,
          doc_section_order, last>>

----------------------------------------------------------------------------
(* Characters and Python str operations                                    *)

\* F applied to x: x is computed once, however often F uses it
Bind(x, F(_)) == F(x)

LowerChars == <<"a","b","c","d","e","f","g","h","i","j","k","l","m",
                "n","o","p","q","r","s","t","u","v","w","x","y","z">>

UpperChars == <<"A","B","C","D","E","F","G","H","I","J","K","L","M",
                "N","O","P","Q","R","S","T","U","V","W","X","Y","Z">>

DigitChars == <<"0","1","2","3","4","5","6","7","8","9">>

\* The characters of the model in ASCII order (str comparison is by code point).
AsciiChars == <<"\t", "\n", " ", "#", "'", "+", ",", "-", ".">> \o DigitChars
              \o <<":", "<", "=", ">">> \o UpperChars \o <<"_">> \o LowerChars

WhiteChars == {" ", "\t", "\n"}

IndexIn(seq, c) == IF \E i \in DOMAIN seq : seq[i] = c
                   THEN CHOOSE i \in DOMAIN seq : seq[i] = c
                   ELSE 0

CharOrd(c) == IndexIn(AsciiChars, c)

\* str.upper() and str.lower(), character by character
UpperChar(c) == IF IndexIn(LowerChars, c) > 0 THEN UpperChars[IndexIn(LowerChars, c)] ELSE c

LowerChar(c) == IF IndexIn(UpperChars, c) > 0 THEN LowerChars[IndexIn(UpperChars, c)] ELSE c

StrUpper(s) == [i \in DOMAIN s |-> UpperChar(s[i])]

StrLower(s) == [i \in DOMAIN s |-> LowerChar(s[i])]

\* str.replace(a, b) for single characters a, b
StrReplaceChar(s, a, b) == [i \in DOMAIN s |-> IF s[i] = a THEN b ELSE s[i]]

\* str.startswith(c) for a single character c
StartsWithChar(s, c) == Len(s) > 0 /\ s[1] = c

\* str.startswith(p): p is a prefix of s
StartsWith(s, p) == Len(p) <= Len(s) /\ SubSeq(s, 1, Len(p)) = p

RECURSIVE LStrip(_)
LStrip(s) == IF s # <<>> /\ Head(s) \in WhiteChars THEN LStrip(Tail(s)) ELSE s

RECURSIVE RStrip(_)
RStrip(s) == IF s # <<>> /\ s[Len(s)] \in WhiteChars
             THEN RStrip(SubSeq(s, 1, Len(s) - 1))
             ELSE s

\* str.strip()
Strip(s) == RStrip(LStrip(s))

\* s < t for Python strs: lexicographic by code point
RECURSIVE StrLess(_, _)
StrLess(s, t) ==
    IF t = <<>> THEN FALSE
    ELSE IF s = <<>> THEN TRUE
    ELSE IF Head(s) = Head(t) THEN StrLess(Tail(s), Tail(t))
    ELSE CharOrd(Head(s)) < CharOrd(Head(t))

\* the decimal digits of a natural number, as str
RECURSIVE NatToStr(_)
NatToStr(n) == IF n < 10 THEN <<DigitChars[n + 1]>>
               ELSE NatToStr(n \div 10) \o <<DigitChars[(n % 10) + 1]>>

\* str(n) for a Python int
IntToStr(n) == IF n < 0 THEN <<"-">> \o NatToStr(0 - n) ELSE NatToStr(n)

IsDigits(s) == s # <<>> /\ \A i \in DOMAIN s : IndexIn(DigitChars, s[i]) > 0

RECURSIVE DigitsToNat(_)
DigitsToNat(s) == IF s = <<>> THEN 0
                  ELSE 10 * DigitsToNat(SubSeq(s, 1, Len(s) - 1))
                       + (IndexIn(DigitChars, s[Len(s)]) - 1)

\* int(s) for a str: surrounding whitespace, an optional sign, decimal digits
IntLiteralBody(s) == IF s # <<>> /\ Head(s) \in {"+", "-"} THEN Tail(s) ELSE s

IsIntLiteral(s) == IsDigits(IntLiteralBody(Strip(s)))

ParseInt(s) ==
    Bind(Strip(s), LAMBDA b : IF StartsWithChar(b, "-") THEN 0 - DigitsToNat(Tail(b))
                              ELSE DigitsToNat(IntLiteralBody(b)))

----------------------------------------------------------------------------
(* Python values                                                           *)

NoneV == [t |-> "none", v |-> 0]

StrV(s) == [t |-> "str", v |-> s]

IntV(n) == [t |-> "int", v |-> n]

BoolV(b) == [t |-> "bool", v |-> b]

IsNone(x) == x.t = "none"

\* bool is a subclass of int: True and False count as 1 and 0 in arithmetic
IsNum(x) == x.t \in {"int", "bool"}

NumOf(x) == IF x.t = "bool" THEN (IF x.v THEN 1 ELSE 0) ELSE x.v

\* a list; a tuple; a dict (v is a function on its keys)
ListV(s) == [t |-> "list", v |-> s]

TupleV(s) == [t |-> "tuple", v |-> s]

DictV(f) == [t |-> "dict", v |-> f]

\* bool(x): the truth value an `if x:` tests
Truthy(x) == CASE x.t = "none"  -> FALSE
               [] x.t = "str"   -> x.v # <<>>
               [] x.t = "int"   -> x.v # 0
               [] x.t = "bool"  -> x.v
               [] x.t \in {"list", "tuple"} -> Len(x.v) > 0
               [] x.t = "dict"  -> DOMAIN x.v # {}

\* x == y
PyEq(x, y) == IF IsNum(x) /\ IsNum(y) THEN NumOf(x) = NumOf(y)
              ELSE x.t = y.t /\ x.v = y.v

\* x <= y in Python 2: numbers by value, strs by code point, and for mixed
\* types None < numbers < str
TypeRank(x) == CASE x.t = "none" -> 0
                 [] IsNum(x)     -> 1
                 [] x.t = "str"  -> 2

PyLe(x, y) == IF IsNum(x) /\ IsNum(y) THEN NumOf(x) <= NumOf(y)
              ELSE IF x.t = "str" /\ y.t = "str" THEN x.v = y.v \/ StrLess(x.v, y.v)
              ELSE TypeRank(x) <= TypeRank(y)

\* str(x), used by "%s" formatting
PyStr(x) == CASE x.t = "none" -> <<"N","o","n","e">>
              [] x.t = "str"  -> x.v
              [] x.t = "int"  -> IntToStr(x.v)
              [] x.t = "bool" -> IF x.v THEN <<"T","r","u","e">> ELSE <<"F","a","l","s","e">>

----------------------------------------------------------------------------
(* Exceptions                                                              *)

NoErr == [cls |-> "none", msg |-> <<>>]

\* ParamError.__init__: a name starting with "-" is a context label
ParamErrorMsg(name, msg) ==
    IF StartsWithChar(name, "-")
    THEN Tail(name) \o <<": ">> \o msg
    ELSE <<"Parameter '">> \o name \o <<"': ">> \o msg

ParamError(name, msg) == [cls |-> "ParamError", msg |-> ParamErrorMsg(name, msg)]

\* class ParamIgnored(ParamError)
ParamIgnored(name, msg) == [cls |-> "ParamIgnored", msg |-> ParamErrorMsg(name, msg)]

\* isinstance(e, ParamError): ParamIgnored is a subclass of ParamError
IsParamError(e) == e.cls \in {"ParamError", "ParamIgnored"}

\* other exceptions of the interpreter and its library
PyError(cls, msg) == [cls |-> cls, msg |-> msg]

\* the outcome of a call: the exception raised (NoErr if none) and the result
Return(x) == [err |-> NoErr, ret |-> x]

Raise(e) == [err |-> e, ret |-> NoneV]

Raised(r) == r.err # NoErr

----------------------------------------------------------------------------
(* Type coercion                                                           *)

PARAM_TYPE_STR == "string"

PARAM_TYPE_INT == "integer"

PARAM_TYPE_BOOL == "bool"

PARAM_TYPES_ALLOWED == {PARAM_TYPE_STR, PARAM_TYPE_INT, PARAM_TYPE_BOOL}

NOT_DEFINED == StrV(<<"_","_","N","O","T","_","D","E","F","I","N","E","D","_","_">>)

BoolTrueWords == {<<"y">>, <<"y","e","s">>, <<"t","r","u","e">>, <<"1">>}

BoolFalseWords == {<<"n">>, <<"n","o">>, <<"f","a","l","s","e">>, <<"0">>}

\* as BoolCheck, but integers count by their truth value
BoolCheck_IntegersToo(val) ==
    IF val.t \in {"bool", "int"} THEN Return(BoolV(Truthy(val)))
    ELSE IF val.t = "str" /\ StrLower(val.v) \in BoolTrueWords THEN Return(BoolV(TRUE))
    ELSE IF val.t = "str" /\ StrLower(val.v) \in BoolFalseWords THEN Return(BoolV(FALSE))
    ELSE Raise(ParamError(PyStr(val), <<"Cannot be translated to boolean value.">>))

\* _bool_check(val)
BoolCheck(val) ==
    IF val.t = "bool" THEN Return(val)
    ELSE IF val.t = "str" /\ StrLower(val.v) \in BoolTrueWords THEN Return(BoolV(TRUE))
    ELSE IF val.t = "str" /\ StrLower(val.v) \in BoolFalseWords THEN Return(BoolV(FALSE))
    ELSE Raise(ParamError(PyStr(val), <<"Cannot be translated to boolean value.">>))

\* str(val)
StrConv(val) == Return(StrV(PyStr(val)))

\* int(val): a str is parsed, a bool counts as 0 or 1
IntConv(val) ==
    CASE val.t = "int"  -> Return(val)
      [] val.t = "bool" -> Return(IntV(NumOf(val)))
      [] val.t = "str"  -> IF IsIntLiteral(val.v) THEN Return(IntV(ParseInt(val.v)))
                           ELSE Raise(PyError("ValueError", <<"invalid literal for int()">>))
      [] OTHER          -> Raise(PyError("TypeError", <<"int() argument">>))

\* Param.PARAM_TYPE_CHECK_FUNCS[param_type](val)
TypeCheckFunc(param_type, val) ==
    CASE param_type = PARAM_TYPE_STR  -> StrConv(val)
      [] param_type = PARAM_TYPE_INT  -> IntConv(val)
      [] param_type = PARAM_TYPE_BOOL -> BoolCheck(val)

\* Param.param_type_check(value): any failure of the conversion becomes a
\* ParamError naming the parameter
ParamTypeCheck(name, param_type, val) ==
    IF IsNone(val) THEN Return(NoneV)
    ELSE Bind(TypeCheckFunc(param_type, val),
              LAMBDA c : IF Raised(c)
                         THEN Raise(ParamError(name, <<"Cannot convert '">> \o PyStr(val)
                                                \o <<"' to type '", param_type, "'.">>))
                         ELSE c)

----------------------------------------------------------------------------
(* class Param                                                             *)

\* `value in self.allowed_values`
InList(x, lst) == \E i \in DOMAIN lst : PyEq(lst[i], x)

\* the checks of Param.validate without the check of the range
CheckConstraints_NoRange(p, x) ==
    IF Truthy(p.allowed_values) /\ ~InList(x, p.allowed_values.v)
    THEN Raise(ParamError(p.name, <<"'">> \o PyStr(x)
                                   \o <<"' is not one of the allowed values.">>))
    ELSE Return(x)

\* the checks of Param.validate on the coerced value x (lines 306-317)
CheckConstraints(p, x) ==
    IF Truthy(p.allowed_values) /\ ~InList(x, p.allowed_values.v)
    THEN Raise(ParamError(p.name, <<"'">> \o PyStr(x)
                                   \o <<"' is not one of the allowed values.">>))
    ELSE IF Truthy(p.allowed_range)
            /\ ~(PyLe(p.allowed_range.v["min"], x) /\ PyLe(x, p.allowed_range.v["max"]))
    THEN Raise(ParamError(p.name, <<"'">> \o PyStr(x)
                                   \o <<"' is not in the allowed range.">>))
    ELSE Return(x)

\* Param.validate(value), for a descriptor p
Validate(p, val) ==
    IF p.ignore THEN Return(val)
    ELSE Bind(ParamTypeCheck(p.name, p.param_type, val),
              LAMBDA c : IF Raised(c) THEN c ELSE CheckConstraints(p, c.ret))

\* the first element of a list that param_type_check rejects (0 if none)
FirstRejected(name, param_type, lst) ==
    Bind({i \in DOMAIN lst : Raised(ParamTypeCheck(name, param_type, lst[i]))},
         LAMBDA bad : IF bad = {} THEN 0 ELSE CHOOSE i \in bad : \A j \in bad : i <= j)

\* [ self.param_type_check(a) for a in allowed_values ] (lines 244-248)
CheckAllowedValues(name, param_type, allowed_values) ==
    IF ~Truthy(allowed_values) THEN Return(NoneV)
    ELSE Bind(FirstRejected(name, param_type, allowed_values.v),
              LAMBDA i :
                IF i # 0 THEN ParamTypeCheck(name, param_type, allowed_values.v[i])
                ELSE Return(ListV([j \in DOMAIN allowed_values.v |->
                        ParamTypeCheck(name, param_type, allowed_values.v[j]).ret])))

\* one operand of the `and` of lines 256-257: the bound must convert, and
\* to a true value
CheckBound(name, param_type, bound) ==
    Bind(ParamTypeCheck(name, param_type, bound),
         LAMBDA c : IF Raised(c) THEN c
                    ELSE IF ~Truthy(c.ret)
                    THEN Raise(ParamError(name,
                                 <<"Values in allowed-range not of permitted type.">>))
                    ELSE c)

\* the sanity check of allowed_range (lines 251-263): the dict is stored as
\* it was passed
CheckAllowedRange(name, param_type, allowed_range) ==
    IF ~Truthy(allowed_range) THEN Return(NoneV)
    ELSE IF Cardinality(DOMAIN allowed_range.v) # 2
            \/ "min" \notin DOMAIN allowed_range.v
            \/ "max" \notin DOMAIN allowed_range.v
    THEN Raise(ParamError(name, <<"Malformed dictionary for 'allowed_range'.">>))
    ELSE Bind(CheckBound(name, param_type, allowed_range.v["min"]),
              LAMBDA lo :
                IF Raised(lo) THEN lo
                ELSE Bind(CheckBound(name, param_type, allowed_range.v["max"]),
                          LAMBDA hi : IF Raised(hi) THEN hi ELSE Return(allowed_range)))

\* the descriptor fields Param.__init__ has assigned once the constraints
\* are stored
ParamFields(a, allowed_values, allowed_range) ==
    [name           |-> a.name,
     conffile       |-> a.conffile,
     ignore         |-> a.ignore,
     param_type     |-> a.param_type,
     allowed_values |-> allowed_values,
     allowed_range  |-> allowed_range,
     default        |-> NoneV,
     cmd_line       |-> a.cmd_line,
     doc_spec       |-> a.doc_spec]

\* what Param.__init__ gives: the exception, or the object and its value
NoParam(e) == [err |-> e, obj |-> NoneV, val |-> NoneV]

NewParam(p, val) == [err |-> NoErr, obj |-> p, val |-> val]

\* the check of cmd_line (lines 272-277), which ends Param.__init__
InitCmdLine(p, val) ==
    IF Truthy(p.cmd_line)
       /\ (Len(p.cmd_line.v) # 2
           \/ (Truthy(p.cmd_line.v[1]) /\ Len(p.cmd_line.v[1].v) # 1))
    THEN NoParam(ParamError(p.name, <<"Invalid command line option specification.">>))
    ELSE NewParam(p, val)

\* the type check and validation of the default (lines 265-270)
InitDefault(p, default) ==
    IF IsNone(default) THEN InitCmdLine(p, NoneV)
    ELSE Bind(ParamTypeCheck(p.name, p.param_type, default),
              LAMBDA d :
                IF Raised(d) THEN NoParam(d.err)
                ELSE Bind(Validate(p, d.ret),
                          LAMBDA x : IF Raised(x) THEN NoParam(x.err)
                                     ELSE InitCmdLine([p EXCEPT !.default = d.ret], x.ret)))

\* the checks of allowed_values and allowed_range (lines 243-263)
InitConstraints(a) ==
    Bind(CheckAllowedValues(a.name, a.param_type, a.allowed_values),
         LAMBDA av :
           IF Raised(av) THEN NoParam(av.err)
           ELSE Bind(CheckAllowedRange(a.name, a.param_type, a.allowed_range),
                     LAMBDA ar : IF Raised(ar) THEN NoParam(ar.err)
                                 ELSE InitDefault(ParamFields(a, av.ret, ar.ret), a.default)))

\* as ParamInit, but without the special check of lines 238-241
ParamInit_NoSpecialCheck(a) ==
    IF a.param_type \notin PARAM_TYPES_ALLOWED
    THEN NoParam(ParamError(a.name, <<"Unknown parameter type '", a.param_type, "'.">>))
    ELSE InitConstraints(a)

\* Param.__init__(name, default, allowed_values, allowed_range, param_type,
\* conffile, cmd_line, ignore), a the record of the arguments
ParamInit(a) ==
    IF a.param_type \notin PARAM_TYPES_ALLOWED
    THEN NoParam(ParamError(a.name, <<"Unknown parameter type '", a.param_type, "'.">>))
    ELSE IF a.param_type = PARAM_TYPE_BOOL
            /\ (Truthy(a.allowed_values) \/ Truthy(a.allowed_range))
    THEN NoParam(ParamError(a.name, <<"Allowed values or range not allowed for boolean.">>))
    ELSE InitConstraints(a)

\* Param.make_getopts_str(): the short and the long option string for
\* getopt, NoneV where there is none
WithIndicator(s, c) == IF Truthy(s) THEN StrV(IF c = "" THEN s.v ELSE s.v \o <<c>>) ELSE NoneV

MakeGetoptsStr(p) ==
    IF ~Truthy(p.cmd_line) THEN <<NoneV, NoneV>>
    ELSE IF p.param_type # PARAM_TYPE_BOOL
    THEN <<WithIndicator(p.cmd_line.v[1], ":"), WithIndicator(p.cmd_line.v[2], "=")>>
    ELSE <<WithIndicator(p.cmd_line.v[1], ""), WithIndicator(p.cmd_line.v[2], "")>>

----------------------------------------------------------------------------
(* class Conf: declaration and access                                      *)

\* a Python dict as a function on its keys
EmptyDict == [k \in {} |-> 0]

DictPut(d, k, x) == [j \in DOMAIN d \cup {k} |-> IF j = k THEN x ELSE d[j]]

\* the string literal 'name' of line 626
NameLiteral == <<"n","a","m","e">>

\* Conf.add: the command line tuple after auto-derivation (lines 629-642)
AddCmdLine(a) ==
    IF a.cmd_line = NOT_DEFINED
    THEN TupleV(<<StrV(<<a.name[1]>>), IF Len(a.name) > 1 THEN StrV(a.name) ELSE NoneV>>)
    ELSE a.cmd_line

\* as AddConffile, but the derived key is the name as it is
AddConffile_NameAsKey(a) ==
    IF a.conffile = NOT_DEFINED THEN StrV(a.name) ELSE a.conffile

\* Conf.add: the conffile key after auto-derivation (lines 644-647)
AddConffile(a) ==
    IF a.conffile = NOT_DEFINED
    THEN StrV(StrReplaceChar(StrUpper(a.name), "-", "_"))
    ELSE a.conffile

\* what Conf.add leaves behind: the exception and the registry
Registry(e, o, v, p, c, s, l) ==
    [err |-> e, objs |-> o, value |-> v, params |-> p, by_conffile |-> c,
     shorts |-> s, longs |-> l]

\* lines 669-673: the new object made is stored under its name and its key
AddStore(a, conffile, shorts, longs, made) ==
    IF made.err # NoErr
    THEN Registry(made.err, objs, value, params, params_by_conffile_name, shorts, longs)
    ELSE Registry(NoErr, Append(objs, made.obj), Append(value, made.val),
                  DictPut(params, a.name, Len(objs) + 1),
                  IF Truthy(conffile)
                  THEN DictPut(params_by_conffile_name, conffile.v, Len(objs) + 1)
                  ELSE params_by_conffile_name,
                  shorts, longs)

\* as AddResolved, but without the test of the long option (lines 661-665)
AddResolved_NoLongCheck(a, conffile, cmd_line, short_opt, long_opt) ==
    IF Truthy(conffile) /\ conffile.v \in DOMAIN params_by_conffile_name
    THEN Registry(ParamError(conffile.v, <<"Duplicate definition.">>), objs, value, params,
                  params_by_conffile_name, all_short_opts_so_far, all_long_opts_so_far)
    ELSE IF Truthy(short_opt) /\ short_opt.v \in all_short_opts_so_far
    THEN Registry(ParamError(a.name, <<"Short option '-">> \o short_opt.v
                                      \o <<"' already in use.">>),
                  objs, value, params, params_by_conffile_name,
                  all_short_opts_so_far, all_long_opts_so_far)
    ELSE AddStore(a, conffile,
                  all_short_opts_so_far
                     \cup (IF Truthy(short_opt) THEN {short_opt.v} ELSE {}),
                  all_long_opts_so_far
                     \cup (IF Truthy(long_opt) THEN {long_opt.v} ELSE {}),
                  ParamInit([a EXCEPT !.conffile = conffile, !.cmd_line = cmd_line]))

\* lines 649-673, with the key and the options resolved
AddResolved(a, conffile, cmd_line, short_opt, long_opt) ==
    IF Truthy(conffile) /\ conffile.v \in DOMAIN params_by_conffile_name
    THEN Registry(ParamError(conffile.v, <<"Duplicate definition.">>), objs, value, params,
                  params_by_conffile_name, all_short_opts_so_far, all_long_opts_so_far)
    ELSE IF Truthy(short_opt) /\ short_opt.v \in all_short_opts_so_far
    THEN Registry(ParamError(a.name, <<"Short option '-">> \o short_opt.v
                                      \o <<"' already in use.">>),
                  objs, value, params, params_by_conffile_name,
                  all_short_opts_so_far, all_long_opts_so_far)
    ELSE IF Truthy(long_opt) /\ long_opt.v \in all_long_opts_so_far
    THEN Registry(ParamError(a.name, <<"Long option '--">> \o long_opt.v
                                      \o <<"' already in use.">>),
                  objs, value, params, params_by_conffile_name,
                  all_short_opts_so_far
                     \cup (IF Truthy(short_opt) THEN {short_opt.v} ELSE {}),
                  all_long_opts_so_far)
    ELSE AddStore(a, conffile,
                  all_short_opts_so_far
                     \cup (IF Truthy(short_opt) THEN {short_opt.v} ELSE {}),
                  all_long_opts_so_far
                     \cup (IF Truthy(long_opt) THEN {long_opt.v} ELSE {}),
                  ParamInit([a EXCEPT !.conffile = conffile, !.cmd_line = cmd_line]))

\* the test of line 626
NameDeclared(name) == NameLiteral \in DOMAIN params

\* Conf.add(name, default, allowed_values, allowed_range, param_type,
\* conffile, cmd_line, ignore), a the record of its arguments: the exception
\* and the registry the call leaves behind. The two lists of options are
\* sets here: add only tests membership in them.
AddOp(a) ==
    IF NameDeclared(a.name)
    THEN Registry(ParamError(a.name, <<"Duplicate definition.">>), objs, value, params,
                  params_by_conffile_name, all_short_opts_so_far, all_long_opts_so_far)
    ELSE IF a.cmd_line = NOT_DEFINED /\ a.name = <<>>
    THEN Registry(PyError("IndexError", <<"string index out of range">>), objs, value,
                  params, params_by_conffile_name, all_short_opts_so_far,
                  all_long_opts_so_far)
    ELSE IF a.cmd_line # NOT_DEFINED /\ Truthy(a.cmd_line) /\ Len(a.cmd_line.v) # 2
    THEN Registry(PyError("ValueError", <<"need more than 1 value to unpack">>), objs,
                  value, params, params_by_conffile_name, all_short_opts_so_far,
                  all_long_opts_so_far)
    ELSE Bind(AddCmdLine(a),
              LAMBDA cmd_line :
                AddResolved(a, AddConffile(a), cmd_line,
                            IF Truthy(cmd_line) THEN cmd_line.v[1] ELSE NoneV,
                            IF Truthy(cmd_line) THEN cmd_line.v[2] ELSE NoneV))

\* as GetOp, but without the test of ignore (lines 683-684)
GetOp_NoIgnoreCheck(vals, name) ==
    IF name \notin DOMAIN params
    THEN Raise(ParamError(name, <<"Unknown parameter.">>))
    ELSE Return(vals[params[name]])

\* Conf.get(name), reading the values vals
GetOp(vals, name) ==
    IF name \notin DOMAIN params
    THEN Raise(ParamError(name, <<"Unknown parameter.">>))
    ELSE IF objs[params[name]].ignore
    THEN Raise(ParamIgnored(name, <<"Parameter configured to be ignored.">>))
    ELSE Return(vals[params[name]])

\* as KeysOp, but with the ignored parameters too
KeysOp_All == DOMAIN params

\* Conf.keys(): the list is a set here, a dict's order being arbitrary
KeysOp == {n \in DOMAIN params : ~objs[params[n]].ignore}

\* Conf.items(), reading the values vals
ItemsOp(vals) == [n \in {k \in KeysOp : ~objs[params[k]].ignore} |-> vals[params[n]]]

\* Conf.get_by_conffile_name(conffile_name), reading the values vals
GetByConffileNameOp(vals, key) ==
    IF key \notin DOMAIN params_by_conffile_name
    THEN Raise(ParamError(key, <<"Unknown parameter.">>))
    ELSE IF objs[params_by_conffile_name[key]].ignore
    THEN Raise(ParamIgnored(key, <<"Parameter configured to be ignored.">>))
    ELSE Return(vals[params_by_conffile_name[key]])

\* what a call that assigns values leaves behind: the exception, the values
Assigned(e, vals) == [err |-> e, vals |-> vals]

\* as SetOp, but storing the value as it was passed
SetOp_StoresRaw(vals, name, raw) ==
    IF name \notin DOMAIN params
    THEN Assigned(ParamError(name, <<"Unknown parameter.">>), vals)
    ELSE IF objs[params[name]].ignore
    THEN Assigned(ParamIgnored(name, <<"Parameter configured to be ignored.">>), vals)
    ELSE Bind(Validate(objs[params[name]], raw),
              LAMBDA r : IF Raised(r) THEN Assigned(r.err, vals)
                         ELSE Assigned(NoErr, [vals EXCEPT ![params[name]] = raw]))

\* as SetOp, but storing the converted value before the constraints are
\* checked
SetOp_StoresFirst(vals, name, raw) ==
    IF name \notin DOMAIN params
    THEN Assigned(ParamError(name, <<"Unknown parameter.">>), vals)
    ELSE IF objs[params[name]].ignore
    THEN Assigned(ParamIgnored(name, <<"Parameter configured to be ignored.">>), vals)
    ELSE Bind(ParamTypeCheck(name, objs[params[name]].param_type, raw),
              LAMBDA c : IF Raised(c) THEN Assigned(c.err, vals)
                         ELSE Assigned(CheckConstraints(objs[params[name]], c.ret).err,
                                       [vals EXCEPT ![params[name]] = c.ret]))

\* Conf.set(name, value) on the values vals
SetOp(vals, name, raw) ==
    IF name \notin DOMAIN params
    THEN Assigned(ParamError(name, <<"Unknown parameter.">>), vals)
    ELSE IF objs[params[name]].ignore
    THEN Assigned(ParamIgnored(name, <<"Parameter configured to be ignored.">>), vals)
    ELSE Bind(Validate(objs[params[name]], raw),
              LAMBDA r : IF Raised(r) THEN Assigned(r.err, vals)
                         ELSE Assigned(NoErr, [vals EXCEPT ![params[name]] = r.ret]))

----------------------------------------------------------------------------
(* Conf._parse_config_file and Conf._process_config_file                   *)

\* the position of the first character c in s (0 if none)
FirstPos(s, c) == IF \E i \in DOMAIN s : s[i] = c
                  THEN CHOOSE i \in DOMAIN s : s[i] = c /\ \A j \in 1..(i - 1) : s[j] # c
                  ELSE 0

\* line.split("#", 1)[0]
BeforeComment(s) ==
    Bind(FirstPos(s, "#"), LAMBDA i : IF i = 0 THEN s ELSE SubSeq(s, 1, i - 1))

\* the length of the longest prefix of s without whitespace
RECURSIVE WordLen(_)
WordLen(s) == IF s = <<>> \/ Head(s) \in WhiteChars THEN 0 ELSE 1 + WordLen(Tail(s))

\* str.split(): the maximal runs of non-whitespace characters
RECURSIVE Split(_)
Split(s) ==
    Bind(LStrip(s),
         LAMBDA t : IF t = <<>> THEN <<>>
                    ELSE Bind(WordLen(t),
                              LAMBDA n : <<SubSeq(t, 1, n)>>
                                         \o Split(SubSeq(t, n + 1, Len(t)))))

LineLabel(i) == <<"-", "Line ">> \o NatToStr(i)

\* as SetFromLine, but the ParamError of set is passed on as it is
SetFromLine_Reraise(vals, i, param_name, raw) ==
    IF param_name \notin DOMAIN params_by_conffile_name
    THEN Assigned(ParamError(LineLabel(i), <<"Unknown parameter '">> \o param_name
                                            \o <<"'.">>), vals)
    ELSE Bind(SetOp(vals, objs[params_by_conffile_name[param_name]].name, StrV(raw)),
              LAMBDA r : IF r.err.cls = "ParamIgnored" THEN Assigned(NoErr, r.vals)
                         ELSE r)

\* lines 512-521: the value is set on the parameter the key names, and the
\* exceptions of set are handled
SetFromLine(vals, i, param_name, raw) ==
    IF param_name \notin DOMAIN params_by_conffile_name
    THEN Assigned(ParamError(LineLabel(i), <<"Unknown parameter '">> \o param_name
                                            \o <<"'.">>), vals)
    ELSE Bind(SetOp(vals, objs[params_by_conffile_name[param_name]].name, StrV(raw)),
              LAMBDA r : IF r.err.cls = "ParamIgnored" THEN Assigned(NoErr, r.vals)
                         ELSE IF r.err.cls = "ParamError"
                         THEN Assigned(ParamError(LineLabel(i), r.err.msg), r.vals)
                         ELSE r)

\* as ParseStripped, but a line of more than two tokens passes
ParseStripped_AtLeastTwo(vals, i, stripped) ==
    IF stripped = <<>> THEN Assigned(NoErr, vals)
    ELSE Bind(Split(stripped),
              LAMBDA elems : IF Len(elems) < 2
                             THEN Assigned(ParamError(LineLabel(i), <<"Malformed line.">>),
                                           vals)
                             ELSE SetFromLine(vals, i, elems[1], elems[2]))

\* lines 504-521, on the line without its comment
ParseStripped(vals, i, stripped) ==
    IF stripped = <<>> THEN Assigned(NoErr, vals)
    ELSE Bind(Split(stripped),
              LAMBDA elems : IF Len(elems) # 2
                             THEN Assigned(ParamError(LineLabel(i), <<"Malformed line.">>),
                                           vals)
                             ELSE SetFromLine(vals, i, elems[1], elems[2]))

\* one pass of the loop of _parse_config_file, on line number i (1-based)
\* with text line: the exception and the values it leaves behind
ParseLine(vals, i, line) == ParseStripped(vals, i, BeforeComment(Strip(line)))

\* Conf._parse_config_file(f) from line i of lines on
RECURSIVE ParseFrom(_, _, _)
ParseFrom(vals, lines, i) ==
    IF i > Len(lines) THEN Assigned(NoErr, vals)
    ELSE Bind(ParseLine(vals, i, lines[i]),
              LAMBDA r : IF r.err # NoErr THEN r ELSE ParseFrom(r.vals, lines, i + 1))

ParseConfigFile(vals, lines) == ParseFrom(vals, lines, 1)

\* What open(fname, "r") finds: a file with its lines (lines without their
\* newline), no file, or a file that cannot be opened for another reason.
NoFile == [kind |-> "absent", lines |-> <<>>]

Unreadable == [kind |-> "denied", lines |-> <<>>]

TextFile(lines) == [kind |-> "file", lines |-> lines]

\* the state of acquire between its phases: exception, values, config_file
Phase(e, vals, cf) == [err |-> e, vals |-> vals, config_file |-> cf]

\* open fname and parse it: the body of the `with` of lines 533-535 and 545-547
OpenAndParse(st, fs, fname) ==
    IF fs[fname].kind = "absent"
    THEN [st EXCEPT !.err = PyError("IOError", <<"No such file or directory">>)]
    ELSE IF fs[fname].kind = "denied"
    THEN [st EXCEPT !.err = PyError("IOError", <<"Permission denied">>)]
    ELSE Bind(ParseConfigFile(st.vals, fs[fname].lines),
              LAMBDA r : Phase(r.err, r.vals, StrV(fname)))

\* as SearchLocations, but every failure to open a file is passed over
RECURSIVE SearchLocations_SkipsUnreadable(_, _, _)
SearchLocations_SkipsUnreadable(st, fs, fnames) ==
    IF fnames = <<>> THEN st
    ELSE Bind(OpenAndParse(st, fs, Head(fnames)),
              LAMBDA r :
                IF r.err.cls = "IOError"
                THEN SearchLocations_SkipsUnreadable(st, fs, Tail(fnames))
                ELSE IF r.err # NoErr THEN r
                ELSE SearchLocations_SkipsUnreadable(r, fs, Tail(fnames)))

\* the loop of lines 530-543 over the file names still to probe
RECURSIVE SearchLocations(_, _, _)
SearchLocations(st, fs, fnames) ==
    IF fnames = <<>> THEN st
    ELSE Bind(OpenAndParse(st, fs, Head(fnames)),
              LAMBDA r :
                IF r.err.cls = "IOError"
                THEN IF r.err.msg = <<"No such file or directory">>
                     THEN SearchLocations(st, fs, Tail(fnames))
                     ELSE [st EXCEPT !.err = ParamError(Head(fnames),
                                                <<"Error processing config file.">>)]
                ELSE IF r.err # NoErr THEN r
                ELSE SearchLocations(r, fs, Tail(fnames)))

\* the registry of the model is constructed with these arguments
default_conf_file_name == <<"t">>

default_conf_file_locations == << <<"a","/">>, <<"b","/">> >>

default_env_prefix == <<"P","_">>

DefaultConfFiles == [i \in DOMAIN default_conf_file_locations |->
                        default_conf_file_locations[i] \o default_conf_file_name]

\* Conf._process_config_file(fname)
ProcessConfigFile(st, fs, fname) ==
    IF ~Truthy(fname) THEN SearchLocations(st, fs, DefaultConfFiles)
    ELSE OpenAndParse(st, fs, fname.v)

----------------------------------------------------------------------------
(* Conf._process_env_vars                                                  *)

EnvLabel(full_var_name) == <<"-", "Environment variable ">> \o full_var_name

\* as EnvVar, but the ParamError of set is passed on as it is
EnvVar_Reraise(st, environ, full_var_name, var_name) ==
    IF full_var_name \notin DOMAIN environ THEN st
    ELSE Bind(SetOp(st.vals, objs[params_by_conffile_name[var_name]].name,
                    StrV(environ[full_var_name])),
              LAMBDA r :
                IF r.err.cls = "ParamIgnored" THEN [st EXCEPT !.vals = r.vals]
                ELSE [st EXCEPT !.err = r.err, !.vals = r.vals])

\* one pass of the loop of lines 565-575, for the dict item var_name
EnvVar(st, environ, full_var_name, var_name) ==
    IF full_var_name \notin DOMAIN environ THEN st
    ELSE Bind(SetOp(st.vals, objs[params_by_conffile_name[var_name]].name,
                    StrV(environ[full_var_name])),
              LAMBDA r :
                IF r.err.cls = "ParamIgnored" THEN [st EXCEPT !.vals = r.vals]
                ELSE IF r.err.cls = "ParamError"
                THEN [st EXCEPT !.err = ParamError(EnvLabel(full_var_name), r.err.msg),
                                 !.vals = r.vals]
                ELSE [st EXCEPT !.err = r.err, !.vals = r.vals])

RECURSIVE EnvLoop(_, _, _, _)
EnvLoop(st, environ, prefix, order) ==
    IF order = <<>> THEN st
    ELSE Bind(EnvVar(st, environ, prefix \o Head(order), Head(order)),
              LAMBDA r : IF r.err # NoErr THEN r
                         ELSE EnvLoop(r, environ, prefix, Tail(order)))

\* env_prefix or self.default_env_prefix (line 562)
EnvPrefix(env_prefix) == IF Truthy(env_prefix) THEN env_prefix.v ELSE default_env_prefix

\* the keys whose environment variable is set: the loop passes over the
\* others (line 568)
KeysInEnviron(environ, env_prefix) ==
    {k \in DOMAIN params_by_conffile_name : (EnvPrefix(env_prefix) \o k) \in DOMAIN environ}

\* Conf._process_env_vars(env_prefix); order is the order in which
\* params_by_conffile_name.items() yields the keys that have a variable
ProcessEnvVars(st, environ, env_prefix, order) ==
    EnvLoop(st, environ, EnvPrefix(env_prefix), order)

----------------------------------------------------------------------------
(* getopt.getopt, as called on line 605                                    *)

GetoptError(msg) == [cls |-> "GetoptError", msg |-> msg]

Opt(o, a) == [o |-> o, a |-> a]

\* what do_shorts and do_longs return: the exception, opts and args
Parsed(e, opts, args) == [err |-> e, opts |-> opts, args |-> args]

\* short_has_arg(opt, shortopts): 0 not recognized, 1 no argument, 2 argument
ShortKind(opt, shortopts) ==
    Bind({i \in DOMAIN shortopts : shortopts[i] = opt /\ opt # ":"},
         LAMBDA hits :
           IF hits = {} THEN 0
           ELSE Bind(CHOOSE i \in hits : \A j \in hits : i <= j,
                     LAMBDA first :
                       IF first < Len(shortopts) /\ shortopts[first + 1] = ":" THEN 2
                       ELSE 1))

\* do_shorts(opts, optstring, shortopts, args)
RECURSIVE DoShorts(_, _, _, _)
DoShorts(opts, optstring, shortopts, args) ==
    IF optstring = <<>> THEN Parsed(NoErr, opts, args)
    ELSE Bind(ShortKind(Head(optstring), shortopts),
              LAMBDA kind :
                IF kind = 0
                THEN Parsed(GetoptError(<<"option -", Head(optstring), " not recognized">>),
                            opts, args)
                ELSE IF kind = 1
                THEN DoShorts(Append(opts, Opt(<<"-", Head(optstring)>>, <<>>)),
                              Tail(optstring), shortopts, args)
                ELSE IF Tail(optstring) = <<>>
                THEN IF args = <<>>
                     THEN Parsed(GetoptError(<<"option -", Head(optstring),
                                               " requires argument">>), opts, args)
                     ELSE Parsed(NoErr,
                                 Append(opts, Opt(<<"-", Head(optstring)>>, Head(args))),
                                 Tail(args))
                ELSE Parsed(NoErr,
                            Append(opts, Opt(<<"-", Head(optstring)>>, Tail(optstring))),
                            args))

\* what long_has_args returns: the exception, has_arg and the full name
Matched(e, h, n) == [err |-> e, has_arg |-> h, opt |-> n]

\* the end of long_has_args, for the one possibility left
UniqueMatch(unique) ==
    IF unique[Len(unique)] = "=" THEN Matched(NoErr, TRUE, SubSeq(unique, 1, Len(unique) - 1))
    ELSE Matched(NoErr, FALSE, unique)

\* long_has_args(opt, longopts)
LongHasArgs(opt, longopts) ==
    Bind({o \in longopts : StartsWith(o, opt)},
         LAMBDA possibilities :
           IF possibilities = {}
           THEN Matched(GetoptError(<<"option --">> \o opt \o <<" not recognized">>),
                        FALSE, opt)
           ELSE IF opt \in possibilities THEN Matched(NoErr, FALSE, opt)
           ELSE IF (opt \o <<"=">>) \in possibilities THEN Matched(NoErr, TRUE, opt)
           ELSE IF Cardinality(possibilities) > 1
           THEN Matched(GetoptError(<<"option --">> \o opt \o <<" not a unique prefix">>),
                        FALSE, opt)
           ELSE UniqueMatch(CHOOSE o \in possibilities : TRUE))

\* do_longs, once the option is split at its "=": given tells whether there
\* was one
LongOpt(opts, given, optarg, h, args) ==
    IF h.err # NoErr THEN Parsed(h.err, opts, args)
    ELSE IF h.has_arg /\ ~given /\ args = <<>>
    THEN Parsed(GetoptError(<<"option --">> \o h.opt \o <<" requires argument">>),
                opts, args)
    ELSE IF h.has_arg /\ ~given
    THEN Parsed(NoErr, Append(opts, Opt(<<"-", "-">> \o h.opt, Head(args))), Tail(args))
    ELSE IF ~h.has_arg /\ given
    THEN Parsed(GetoptError(<<"option --">> \o h.opt \o <<" must not have an argument">>),
                opts, args)
    ELSE Parsed(NoErr, Append(opts, Opt(<<"-", "-">> \o h.opt, optarg)), args)

\* do_longs(opts, opt, longopts, args)
DoLongs(opts, body, longopts, args) ==
    Bind(FirstPos(body, "="),
         LAMBDA eq :
           IF eq = 0
           THEN LongOpt(opts, FALSE, <<>>, LongHasArgs(body, longopts), args)
           ELSE LongOpt(opts, TRUE, SubSeq(body, eq + 1, Len(body)),
                        LongHasArgs(SubSeq(body, 1, eq - 1), longopts), args))

\* one pass of the loop of getopt.getopt, on the first of args
GetoptStep(opts, args, shortopts, longopts) ==
    IF StartsWith(Head(args), <<"-", "-">>)
    THEN DoLongs(opts, SubSeq(Head(args), 3, Len(Head(args))), longopts, Tail(args))
    ELSE DoShorts(opts, Tail(Head(args)), shortopts, Tail(args))

\* getopt.getopt(args, shortopts, longopts), the options found so far in opts
RECURSIVE Getopt(_, _, _, _)
Getopt(opts, args, shortopts, longopts) ==
    IF args = <<>> \/ ~StartsWithChar(Head(args), "-") \/ Head(args) = <<"-">>
    THEN Parsed(NoErr, opts, args)
    ELSE IF Head(args) = <<"-", "-">>
    THEN Parsed(NoErr, opts, Tail(args))
    ELSE Bind(GetoptStep(opts, args, shortopts, longopts),
              LAMBDA r : IF r.err # NoErr THEN r
                         ELSE Getopt(r.opts, r.args, shortopts, longopts))

----------------------------------------------------------------------------
(* Conf._process_cmd_line and Conf.acquire                                 *)

\* the orders in which a dict with the keys S may yield them
Orders(S) == {f \in [1..Cardinality(S) -> S] : \A i, j \in DOMAIN f : f[i] = f[j] => i = j}

\* the objects of Conf.params, in the order of their creation
RECURSIVE RefsFrom(_)
RefsFrom(i) == IF i > Len(objs) THEN <<>>
               ELSE (IF \E n \in DOMAIN params : params[n] = i THEN <<i>> ELSE <<>>)
                    \o RefsFrom(i + 1)

\* short_opts_str of lines 585-602
RECURSIVE ShortOptsStr(_)
ShortOptsStr(refs) ==
    IF refs = <<>> THEN <<>>
    ELSE Bind(MakeGetoptsStr(objs[Head(refs)])[1],
              LAMBDA short_str : IF Truthy(short_str) THEN short_str.v ELSE <<>>)
         \o ShortOptsStr(Tail(refs))

\* long_opts_list of lines 585-602: getopt only tests membership in it
LongOptsList(refs) ==
    {MakeGetoptsStr(objs[refs[i]])[2].v :
        i \in {j \in DOMAIN refs : Truthy(MakeGetoptsStr(objs[refs[j]])[2])}}

WithoutIndicator(s, c) == IF s[Len(s)] = c THEN SubSeq(s, 1, Len(s) - 1) ELSE s

\* the keys of param_opt_lookup for the option strings g
OptKeys(g) ==
    (IF Truthy(g[1]) THEN {<<"-">> \o WithoutIndicator(g[1].v, ":")} ELSE {})
    \cup (IF Truthy(g[2]) THEN {<<"-", "-">> \o WithoutIndicator(g[2].v, "=")} ELSE {})

\* the keys under which param_opt_lookup holds the object ref
LookupKeys(ref) == OptKeys(MakeGetoptsStr(objs[ref]))

\* param_opt_lookup.get(o): the object, 0 for None
ParamOptLookup(refs, o) ==
    Bind({i \in DOMAIN refs : o \in LookupKeys(refs[i])},
         LAMBDA hits : IF hits = {} THEN 0
                       ELSE refs[CHOOSE i \in hits : \A j \in hits : j <= i])

\* as ApplyOpt, but a flag that is set is cleared by its option
ApplyOpt_Toggles(st, ref, o, a) ==
    IF ref = 0 THEN [st EXCEPT !.err = ParamError(o, <<"Unknown parameter.">>)]
    ELSE IF objs[ref].ignore THEN st
    ELSE Bind(SetOp(st.vals, objs[ref].name,
                    IF objs[ref].param_type = PARAM_TYPE_BOOL
                    THEN BoolV(st.vals[ref] # BoolV(TRUE))
                    ELSE StrV(a)),
              LAMBDA r : [st EXCEPT !.err = r.err, !.vals = r.vals])

\* lines 611-617, for the option o with argument a found for the object ref
ApplyOpt(st, ref, o, a) ==
    IF ref = 0 THEN [st EXCEPT !.err = ParamError(o, <<"Unknown parameter.">>)]
    ELSE IF objs[ref].ignore THEN st
    ELSE Bind(SetOp(st.vals, objs[ref].name,
                    IF objs[ref].param_type = PARAM_TYPE_BOOL THEN BoolV(TRUE)
                    ELSE StrV(a)),
              LAMBDA r : [st EXCEPT !.err = r.err, !.vals = r.vals])

\* as ApplyOpts, but the options are applied from the last to the first
RECURSIVE ApplyOpts_Backwards(_, _, _)
ApplyOpts_Backwards(st, refs, opts) ==
    IF opts = <<>> THEN st
    ELSE Bind(opts[Len(opts)],
              LAMBDA h :
                Bind(ApplyOpt(st, ParamOptLookup(refs, h.o), h.o, h.a),
                     LAMBDA r : IF r.err # NoErr THEN r
                                ELSE ApplyOpts_Backwards(r, refs,
                                                         SubSeq(opts, 1, Len(opts) - 1))))

\* the loop of lines 609-617 over the options still to apply
RECURSIVE ApplyOpts(_, _, _)
ApplyOpts(st, refs, opts) ==
    IF opts = <<>> THEN st
    ELSE Bind(ApplyOpt(st, ParamOptLookup(refs, Head(opts).o), Head(opts).o, Head(opts).a),
              LAMBDA r : IF r.err # NoErr THEN r ELSE ApplyOpts(r, refs, Tail(opts)))

\* lines 604-617, refs the objects of Conf.params
CmdLineWith(st, refs, args) ==
    Bind(Getopt(<<>>, args, ShortOptsStr(refs), LongOptsList(refs)),
         LAMBDA g : IF g.err # NoErr
                    THEN [st EXCEPT !.err = ParamError(<<"-", "Command line option">>,
                                                       g.err.msg)]
                    ELSE ApplyOpts(st, refs, g.opts))

\* Conf._process_cmd_line(args)
ProcessCmdLine(st, args) == CmdLineWith(st, RefsFrom(1), args)

\* the parameters the sweep of lines 762-773 can find unset
UnsetNames(vals) == {n \in DOMAIN params : ~objs[params[n]].ignore /\ IsNone(vals[params[n]])}

\* the sweep of lines 766-773 when it is run: it raises for the first
\* parameter the dict yields that is unset, which may be any of them
SweepUnset(st, unset) ==
    IF unset = {} THEN {st}
    ELSE {[st EXCEPT !.err = ParamError(n, <<"Requires a value, nothing has been set.">>)] :
            n \in unset}

\* as Sweep, but deciding by the default of the registry alone
Sweep_DefaultOnly(st, allow_unset_values) ==
    IF default_allow_unset_values THEN {st}
    ELSE SweepUnset(st, UnsetNames(st.vals))

\* lines 759-773
Sweep(st, allow_unset_values) ==
    IF (IF IsNone(allow_unset_values) THEN default_allow_unset_values
        ELSE Truthy(allow_unset_values))
    THEN {st}
    ELSE SweepUnset(st, UnsetNames(st.vals))

\* lines 757-773, st the state after the environment variables
AfterCmdLine(st, allow_unset_values) ==
    IF st.err # NoErr THEN {st} ELSE Sweep(st, allow_unset_values)

\* lines 756-773, st the state after the configuration file, for one order
\* in which params_by_conffile_name.items() yields the keys
AfterEnvVars(st, in) ==
    IF st.err # NoErr THEN {st}
    ELSE AfterCmdLine(ProcessCmdLine(st, in.args), in.allow_unset_values)

\* as AfterConfigFile, but with the command line read before the environment
AfterConfigFile_CmdLineFirst(st, in) ==
    IF st.err # NoErr THEN {st}
    ELSE Bind(ProcessCmdLine(st, in.args),
              LAMBDA c :
                IF c.err # NoErr THEN {c}
                ELSE UNION {AfterCmdLine(ProcessEnvVars(c, in.environ, in.env_prefix, order),
                                         in.allow_unset_values) :
                              order \in Orders(KeysInEnviron(in.environ, in.env_prefix))})

\* lines 755-773, st the state after the configuration file
AfterConfigFile(st, in) ==
    IF st.err # NoErr THEN {st}
    ELSE UNION {AfterEnvVars(ProcessEnvVars(st, in.environ, in.env_prefix, order), in) :
                  order \in Orders(KeysInEnviron(in.environ, in.env_prefix))}

\* as AcquireFrom, but a call that raises puts back the values it found
AcquireFrom_RollsBack(st0, in) ==
    {IF o.err # NoErr THEN [o EXCEPT !.vals = st0.vals] ELSE o :
       o \in AfterConfigFile(ProcessConfigFile(st0, in.fs, in.config_filename), in)}

\* Conf.acquire(args, config_filename, env_prefix, allow_unset_values) in the
\* file system fs and the environment environ, all fields of the record in:
\* the possible outcomes (exception, values and config_file left behind),
\* one for each order in which the dicts may be iterated.
AcquireFrom(st0, in) ==
    AfterConfigFile(ProcessConfigFile(st0, in.fs, in.config_filename), in)

AcquireOutcomes(in) == AcquireFrom(Phase(NoErr, value, config_file), in)

----------------------------------------------------------------------------
(* Param.doc and Conf.make_doc                                             *)

\* dict.get(k)
DictGet(d, k) == IF k \in DOMAIN d.v THEN d.v[k] ELSE NoneV

\* dspec of lines 356-358
DocSpecOf(p) ==
    IF Truthy(p.doc_spec) THEN p.doc_spec
    ELSE DictV([text |-> StrV(<<>>), section |-> NoneV, argname |-> StrV(<<>>)])

\* argname of lines 361-366
ArgName(p, dspec) ==
    IF p.param_type = PARAM_TYPE_BOOL THEN <<>>
    ELSE IF Truthy(DictGet(dspec, "argname")) THEN DictGet(dspec, "argname").v
    ELSE <<"v","a","l">>

\* the option description of lines 371-381
OptionsDoc(short_opt, long_opt, argname) ==
    (IF Truthy(short_opt)
     THEN <<"-">> \o short_opt.v
          \o (IF argname # <<>> THEN <<" ","<">> \o argname \o <<">">> ELSE <<>>)
          \o (IF Truthy(long_opt) THEN <<","," ">> ELSE <<>>)
     ELSE <<>>)
    \o (IF Truthy(long_opt)
        THEN <<"-","-">> \o long_opt.v
             \o (IF argname # <<>> THEN <<"=","<">> \o argname \o <<">">> ELSE <<>>)
        ELSE <<>>)

\* s.split(c)
RECURSIVE SplitOn(_, _)
SplitOn(s, c) ==
    IF \A i \in DOMAIN s : s[i] # c THEN <<s>>
    ELSE Bind(CHOOSE i \in DOMAIN s : s[i] = c /\ \A j \in 1..(i - 1) : s[j] # c,
              LAMBDA i : <<SubSeq(s, 1, i - 1)>> \o SplitOn(SubSeq(s, i + 1, Len(s)), c))

\* '\n'.join(textwrap.wrap(t, initial_indent="    ", ...)) for a block t of
\* words that fits one line of 70 columns: nothing for a blank block
WrapBlock(t) == IF Strip(t) = <<>> THEN <<>> ELSE <<" "," "," "," ">> \o RStrip(t)

RECURSIVE TextBlocks(_)
TextBlocks(blocks) ==
    IF blocks = <<>> THEN <<>>
    ELSE <<"\n">> \o WrapBlock(Head(blocks)) \o TextBlocks(Tail(blocks))

\* the description text of lines 383-402
TextDoc(text) ==
    IF Truthy(text) THEN TextBlocks(SplitOn(text.v, "\n")) \o <<"\n">> ELSE <<"\n">>

\* the lines for the default and the config file key (lines 403-406)
DefaultDoc(p) ==
    (IF Truthy(p.default)
     THEN <<" "," "," "," ","D","e","f","a","u","l","t"," ","v","a","l","u","e",":"," ">> \o PyStr(p.default) \o <<"\n">> ELSE <<>>)
    \o (IF Truthy(p.conffile)
        THEN <<" "," "," "," ","C","o","n","f"," ","f","i","l","e"," ","e","q","u","i","v","a","l","e","n","t",":"," ">> \o p.conffile.v \o <<"\n">> ELSE <<>>)

\* Param.doc(): the section and the text, (None, None) without cmd_line
ParamDoc(p) ==
    IF ~Truthy(p.cmd_line) THEN <<NoneV, NoneV>>
    ELSE Bind(OptionsDoc(p.cmd_line.v[1], p.cmd_line.v[2], ArgName(p, DocSpecOf(p))),
              LAMBDA s : <<DictGet(DocSpecOf(p), "section"),
                           StrV(IF s = <<>> THEN <<>>
                                ELSE s \o TextDoc(DictGet(DocSpecOf(p), "text"))
                                       \o DefaultDoc(p))>>)

\* the (sec, txt) pairs make_doc keeps (lines 810-813), in the order the
\* parameters were added
RECURSIVE DocsOf(_)
DocsOf(refs) ==
    IF refs = <<>> THEN <<>>
    ELSE Bind(ParamDoc(objs[Head(refs)]),
              LAMBDA d : (IF Truthy(d[2]) THEN <<d>> ELSE <<>>) \o DocsOf(Tail(refs)))

\* list.sort(key=lambda k: k.lower()) on strs: stable, by insertion
RECURSIVE InsertByLower(_, _)
InsertByLower(x, sorted) ==
    IF sorted = <<>> THEN <<x>>
    ELSE IF StrLess(StrLower(x), StrLower(Head(sorted))) THEN <<x>> \o sorted
    ELSE <<Head(sorted)>> \o InsertByLower(x, Tail(sorted))

RECURSIVE SortByLower(_)
SortByLower(list) ==
    IF list = <<>> THEN <<>>
    ELSE InsertByLower(list[Len(list)], SortByLower(SubSeq(list, 1, Len(list) - 1)))

\* sections[sec] after lines 810-818
RECURSIVE TextsOf(_, _)
TextsOf(docs, sec) ==
    IF docs = <<>> THEN <<>>
    ELSE (IF Head(docs)[1] = sec THEN <<Head(docs)[2].v>> ELSE <<>>) \o TextsOf(Tail(docs), sec)

SectionTexts(docs, sec) == SortByLower(TextsOf(docs, sec))

\* sections.keys()
SectionKeys(docs) == {docs[i][1] : i \in DOMAIN docs}

\* the keys as a list: a dict's order is arbitrary, the sort fixes it but for
\* names equal up to case
RECURSIVE KeyList(_)
KeyList(keys) ==
    IF keys = {} THEN <<>>
    ELSE Bind(CHOOSE k \in keys : TRUE, LAMBDA k : <<k.v>> \o KeyList(keys \ {k}))

\* snames of lines 822-826, or the exception of k.lower() for the key None
SectionNames(docs) ==
    IF Truthy(doc_section_order) THEN Return(doc_section_order.v)
    ELSE IF NoneV \in SectionKeys(docs)
    THEN Raise(PyError("AttributeError", <<"'NoneType' object has no attribute 'lower'">>))
    ELSE Return([i \in DOMAIN SortByLower(KeyList(SectionKeys(docs)))
                    |-> StrV(SortByLower(KeyList(SectionKeys(docs)))[i])])

RECURSIVE Spaces(_)
Spaces(n) == IF n = 0 THEN <<>> ELSE <<" ">> \o Spaces(n - 1)

RECURSIVE IndentLines(_, _)
IndentLines(lines, istr) ==
    IF lines = <<>> THEN <<>>
    ELSE <<istr \o <<" "," "," "," ">> \o Head(lines)>> \o IndentLines(Tail(lines), istr)

\* the output lines of the texts of one section (lines 833-835)
RECURSIVE TextLines(_, _)
TextLines(texts, istr) ==
    IF texts = <<>> THEN <<>>
    ELSE IndentLines(SplitOn(Head(texts), "\n"), istr) \o TextLines(Tail(texts), istr)

\* the loop of lines 829-835 over the section names left, out being the
\* lines so far
RECURSIVE SectionLines(_, _, _, _)
SectionLines(snames, docs, istr, out) ==
    IF snames = <<>> THEN Return(out)
    ELSE IF Head(snames) \notin SectionKeys(docs)
    THEN Raise(PyError("KeyError", <<"KeyError">>))
    ELSE SectionLines(Tail(snames), docs, istr,
                      out \o (IF Truthy(Head(snames))
                              THEN <<istr \o Head(snames).v \o <<":">>>> ELSE <<>>)
                          \o TextLines(SectionTexts(docs, Head(snames)), istr))

\* sep.join(lines)
RECURSIVE Join(_, _)
Join(lines, sep) ==
    IF lines = <<>> THEN <<>>
    ELSE IF Len(lines) = 1 THEN Head(lines)
    ELSE Head(lines) \o sep \o Join(Tail(lines), sep)

\* Conf.make_doc(indent)
MakeDocOp(indent) ==
    Bind(DocsOf(RefsFrom(1)),
         LAMBDA docs :
            Bind(SectionNames(docs),
                 LAMBDA sn :
                    IF Raised(sn) THEN sn
                    ELSE Bind(SectionLines(sn.ret, docs, Spaces(indent), <<>>),
                              LAMBDA r : IF Raised(r) THEN r
                                         ELSE Return(StrV(RStrip(Join(r.ret, <<"\n">>)))))))

----------------------------------------------------------------------------
(* The declarations, values and sources the model draws its calls from     *)

\* the arguments of one Conf.add call
Decl(name, param_type, default, allowed_values, allowed_range, conffile, cmd_line, ignore) ==
    [name |-> name, param_type |-> param_type, default |-> default,
     allowed_values |-> allowed_values, allowed_range |-> allowed_range,
     conffile |-> conffile, cmd_line |-> cmd_line, ignore |-> ignore,
     doc_spec |-> NoneV]

Range(lo, hi) == DictV([k \in {"min", "max"} |-> IF k = "min" THEN lo ELSE hi])

\* foo: a string out of a list, bound to FOO and -f/--foo by derivation
DeclFoo == Decl(<<"f","o","o">>, PARAM_TYPE_STR, StrV(<<"a">>),
                ListV(<<StrV(<<"a">>), StrV(<<"b">>), StrV(<<"c">>), StrV(<<"d">>)>>), NoneV,
                NOT_DEFINED, NOT_DEFINED, FALSE)

\* num: an integer in 1..9 without default, bound to NUM and -n/--num
DeclNum == Decl(<<"n","u","m">>, PARAM_TYPE_INT, NoneV, NoneV, Range(IntV(1), IntV(9)),
                NOT_DEFINED, NOT_DEFINED, FALSE)

\* ign: an ignored parameter, bound to IGN and -i/--ign
DeclIgn == Decl(<<"i","g","n">>, PARAM_TYPE_INT, NoneV, NoneV, NoneV,
                NOT_DEFINED, NOT_DEFINED, TRUE)

\* g: a flag, bound to G and -g
DeclG == Decl(<<"g">>, PARAM_TYPE_BOOL, NoneV, NoneV, NoneV,
              NOT_DEFINED, NOT_DEFINED, FALSE)

\* foo declared again, without config-file key and without option
DeclFooAgain == Decl(<<"f","o","o">>, PARAM_TYPE_STR, StrV(<<"z">>),
                     ListV(<<StrV(<<"b">>), StrV(<<"z">>)>>), NoneV, NoneV, NoneV, FALSE)

\* ign declared again, not ignored, without config-file key and option
DeclIgnAgain == Decl(<<"i","g","n">>, PARAM_TYPE_STR, NoneV, ListV(<<StrV(<<"5">>), StrV(<<"7">>)>>), NoneV,
                     NoneV, NoneV, FALSE)

DeclMenu == {DeclFoo, DeclNum, DeclIgn, DeclG, DeclFooAgain, DeclIgnAgain}

\* fig: its derived short option is the -f of foo
DeclFig == Decl(<<"f","i","g">>, PARAM_TYPE_STR, NoneV, NoneV, NoneV,
                NOT_DEFINED, NOT_DEFINED, FALSE)

\* bar: its explicit config-file key is the FOO of foo; no option
DeclBar == Decl(<<"b","a","r">>, PARAM_TYPE_STR, NoneV, NoneV, NoneV,
                StrV(<<"F","O","O">>), NoneV, FALSE)

\* zed: its explicit long option is the --foo of foo, its short one is free
DeclZed == Decl(<<"z","e","d">>, PARAM_TYPE_INT, IntV(3), NoneV, NoneV,
                NOT_DEFINED, TupleV(<<StrV(<<"z">>), StrV(<<"f","o","o">>)>>), FALSE)

\* low: free key and options, but a default outside its allowed values
DeclLow == Decl(<<"l","o","w">>, PARAM_TYPE_STR, StrV(<<"q">>),
                ListV(<<StrV(<<"a">>)>>), NoneV, NOT_DEFINED, NOT_DEFINED, FALSE)

\* a parameter called name
DeclName == Decl(NameLiteral, PARAM_TYPE_STR, NoneV, NoneV, NoneV,
                 NOT_DEFINED, NOT_DEFINED, FALSE)

\* lim: an integer with allowed values and an allowed range, one of the
\* values outside the range
DeclBoth == Decl(<<"l","i","m">>, PARAM_TYPE_INT, IntV(3),
                 ListV(<<IntV(3), IntV(20)>>), Range(IntV(1), IntV(9)),
                 NOT_DEFINED, NoneV, FALSE)

\* flg: a flag declared with allowed values
DeclFlagValues == Decl(<<"f","l","g">>, PARAM_TYPE_BOOL, NoneV, ListV(<<BoolV(TRUE)>>), NoneV,
                       NOT_DEFINED, NOT_DEFINED, FALSE)

\* yes: a flag declared with an allowed range, without key and options
DeclFlagRange == Decl(<<"y","e","s">>, PARAM_TYPE_BOOL, BoolV(TRUE), NoneV,
                      Range(BoolV(FALSE), BoolV(TRUE)), NoneV, NoneV, FALSE)

\* opt: a flag declared with an empty list of allowed values
DeclFlagEmpty == Decl(<<"o","p","t">>, PARAM_TYPE_BOOL, NoneV, ListV(<<>>), NoneV,
                      NOT_DEFINED, NOT_DEFINED, FALSE)

\* a-b: a name with a dash, key and options derived
DeclDash == Decl(<<"a","-","b">>, PARAM_TYPE_STR, NoneV, NoneV, NoneV,
                 NOT_DEFINED, NOT_DEFINED, FALSE)

\* lll: a parameter of the list type of src/test.py and src/sample.py, for
\* which this source has no constant; without key and options
DeclList(default) == Decl(<<"l","l","l">>, "str-list", default, NoneV, NoneV,
                          NoneV, NoneV, FALSE)

\* flt: a parameter of a type no version knows; without key and options
DeclFloat == Decl(<<"f","l","t">>, "float", NoneV, NoneV, NoneV, NoneV, NoneV, FALSE)

\* v: a flag with a default, without key and options
DeclV(default) == Decl(<<"v">>, PARAM_TYPE_BOOL, default, NoneV, NoneV, NoneV, NoneV, FALSE)

\* defaults of v: words for true and false, other words, integers
DefaultsOfV == {StrV(<<"y","E","s">>), StrV(<<"0">>), StrV(<<"j">>), IntV(1)}

\* a parameter limited to lo..hi, without default, key and options
DeclRange(name, param_type, lo, hi) ==
    Decl(name, param_type, NoneV, NoneV, Range(lo, hi), NoneV, NoneV, FALSE)

\* declarations with a range: from 1, from "1", from 0, to 0, from the
\* empty string
RangeMenu ==
    {DeclRange(<<"r">>, PARAM_TYPE_INT, IntV(1), IntV(9)),
     DeclRange(<<"r">>, PARAM_TYPE_INT, StrV(<<"1">>), IntV(9)),
     DeclRange(<<"r">>, PARAM_TYPE_INT, IntV(0), IntV(10)),
     DeclRange(<<"r">>, PARAM_TYPE_INT, StrV(<<"0">>), IntV(10)),
     DeclRange(<<"r">>, PARAM_TYPE_INT, IntV(-5), IntV(0)),
     DeclRange(<<"s">>, PARAM_TYPE_STR, StrV(<<"b">>), StrV(<<"m">>)),
     DeclRange(<<"s">>, PARAM_TYPE_STR, StrV(<<>>), StrV(<<"m">>))}

\* the declarations of the runs that only declare
AddMenu == DeclMenu \cup {DeclFig, DeclBar, DeclZed, DeclLow, DeclName, DeclBoth,
                          DeclFlagValues, DeclFlagRange, DeclFlagEmpty}
                   \cup {DeclV(default) : default \in DefaultsOfV} \cup {DeclDash}
                   \cup {DeclList(StrV(<<"1",",","2",",","3">>)), DeclFloat}
                   \cup RangeMenu

\* the names and keys get, set and get_by_conffile_name are called with
NameMenu == {<<"f","o","o">>, <<"n","u","m">>, <<"i","g","n">>, <<"g">>, <<"b","a","r">>}

KeyMenu == {<<"F","O","O">>, <<"N","U","M">>, <<"I","G","N">>, <<"G">>, <<"B","A","R">>}

\* the values set is called with
RawMenu == {StrV(<<"b">>), StrV(<<"7">>), IntV(40), BoolV(TRUE), StrV(<<"n","o">>), NoneV}

\* the values the calls of PrecedenceInputs give foo in the config file, in
\* the environment and on the command line
FooInFile == <<"b">>

FooInEnv == <<"c">>

FooOnCmdLine == <<"d">>

\* config files
FileB == TextFile(<<<<"F","O","O"," ">> \o FooInFile>>)

FileC == TextFile(<<<<"#"," ","f","i","r","s","t">>, <<>>, <<" ","F","O","O"," ","c"," "," ","#"," ","t","a","i","l">>, <<"N","U","M"," ","7">>>>)

FileIgn == TextFile(<<<<"I","G","N"," ","5">>, <<"F","O","O"," ","b">>>>)

FileBad == TextFile(<<<<"N","U","M"," ","7">>, <<"F","O","O"," ","x">>>>)

PathOne == DefaultConfFiles[1]

PathTwo == DefaultConfFiles[2]

PathExplicit == <<"m","y",".","c","o","n","f">>

Fs(one, two, explicit) ==
    [f \in {PathOne, PathTwo, PathExplicit} |->
        IF f = PathOne THEN one ELSE IF f = PathTwo THEN two ELSE explicit]

\* os.environ
Env(foo, ign) ==
    [k \in (IF foo = <<>> THEN {} ELSE {<<"P","_","F","O","O">>}) \cup (IF ign = <<>> THEN {} ELSE {<<"P","_","I","G","N">>})
        |-> IF k = <<"P","_","F","O","O">> THEN foo ELSE ign]

\* the arguments of one Conf.acquire call, with the file system and the
\* environment it runs in
In(args, config_filename, env_prefix, allow_unset_values, fs, environ) ==
    [args |-> args, config_filename |-> config_filename, env_prefix |-> env_prefix,
     allow_unset_values |-> allow_unset_values, fs |-> fs, environ |-> environ]

\* acquire calls: one parameter in some or all of the three sources
PrecedenceInputs ==
    {In(args, NoneV, NoneV, NoneV, Fs(one, NoFile, NoFile), env) :
        args \in {<<>>, <<<<"-","f">>, FooOnCmdLine>>}, one \in {NoFile, FileB},
        env \in {Env(<<>>, <<>>), Env(FooInEnv, <<>>)}}

\* acquire calls: the three values of allow_unset_values
SweepInputs ==
    {In(args, NoneV, NoneV, au, Fs(NoFile, NoFile, NoFile), Env(<<>>, <<>>)) :
        args \in {<<>>, <<<<"-","n","7">>, <<"-","g">>>>}, au \in {NoneV, BoolV(TRUE), BoolV(FALSE)}}

\* FileIgn with an empty line for the line of IGN
FileNoIgn == TextFile(<<<<>>, <<"F","O","O"," ","b">>>>)

\* a source with the ignored ign in it (src) and the same without (rest)
Occurrence(src, rest) == [src |-> src, rest |-> rest]

IgnoredArgs ==
    {Occurrence(<<>>, <<>>),
     Occurrence(<<<<"-","i">>, <<"5">>, <<"-","-","f","o","o","=","d">>>>,
                <<<<"-","-","f","o","o","=","d">>>>),
     Occurrence(<<<<"-","-","i","g","n","=","7">>>>, <<>>)}

IgnoredFiles == {Occurrence(NoFile, NoFile), Occurrence(FileIgn, FileNoIgn)}

IgnoredEnvs == {Occurrence(Env(<<>>, <<>>), Env(<<>>, <<>>)),
                Occurrence(Env(<<"c">>, <<"5">>), Env(<<"c">>, <<>>))}

\* acquire calls: the key, variable and options of ign in the sources, each
\* with the call that leaves them out
IgnoredCases ==
    {Occurrence(In(a.src, NoneV, NoneV, BoolV(TRUE), Fs(f.src, NoFile, NoFile), e.src),
                In(a.rest, NoneV, NoneV, BoolV(TRUE), Fs(f.rest, NoFile, NoFile), e.rest)) :
        a \in IgnoredArgs, f \in IgnoredFiles, e \in IgnoredEnvs}

IgnoredInputs == {c.src : c \in IgnoredCases}

\* acquire calls: config files at the search locations and an explicit one
SearchInputs ==
    {In(<<>>, cfn, NoneV, BoolV(TRUE), fs, Env(<<>>, <<>>)) :
        cfn \in {NoneV, StrV(PathExplicit)},
        fs \in {Fs(FileB, FileC, NoFile), Fs(NoFile, FileB, FileC),
                Fs(Unreadable, FileB, FileBad), Fs(FileC, Unreadable, Unreadable),
                Fs(FileBad, FileB, NoFile)}}

\* a one-token line after a comment line and a blank line
FileShort == TextFile(<<<<"#"," ","c">>, <<>>, <<"F","O","O">>>>)

\* a three-token line after a line that is in order
FileLong == TextFile(<<<<"F","O","O"," ","b">>, <<"F","O","O"," ","c"," "," ","d">>>>)

\* acquire calls: a config file with a line that has not two tokens
MalformedInputs ==
    {In(<<>>, NoneV, NoneV, BoolV(TRUE), Fs(f, NoFile, NoFile), Env(<<>>, <<>>)) :
        f \in {FileShort, FileLong}}

\* acquire calls: a repeated option, a flag, an option nothing binds
CmdLineInputs ==
    {In(args, NoneV, NoneV, BoolV(TRUE), Fs(NoFile, NoFile, NoFile), Env(<<>>, <<>>)) :
        args \in {<<<<"-","f">>, <<"b">>, <<"-","-","f","o","o","=","d">>>>, <<<<"-","g">>>>, <<<<"-","x">>>>}}

\* acquire calls: a rejected value in each source
RejectedInputs ==
    {In(<<<<"-","n">>, <<"7">>, <<"-","f">>, <<"x">>>>, NoneV, NoneV, NoneV, Fs(NoFile, NoFile, NoFile),
        Env(<<>>, <<>>)),
     In(<<>>, NoneV, NoneV, NoneV, Fs(FileB, NoFile, NoFile), Env(<<"x">>, <<>>)),
     In(<<>>, NoneV, NoneV, NoneV, Fs(NoFile, FileBad, NoFile), Env(<<>>, <<>>))}

AcquireInputs == PrecedenceInputs \cup SweepInputs \cup IgnoredInputs \cup SearchInputs
                 \cup RejectedInputs \cup MalformedInputs \cup CmdLineInputs

\* a doc_spec with a section and a text, argname left out
DocSpec(section, text) ==
    DictV([k \in {"section", "text"} |-> IF k = "section" THEN section ELSE StrV(text)])

WithDoc(a, doc_spec) == [a EXCEPT !.doc_spec = doc_spec]

SecAlpha == StrV(<<"A","l","p","h","a">>)

SecBeta == StrV(<<"b","e","t","a">>)

\* Zed: bound to ZED and -Z/--Zed by derivation
DeclZedUpper == Decl(<<"Z","e","d">>, PARAM_TYPE_STR, NoneV, NoneV, NoneV,
                     NOT_DEFINED, NOT_DEFINED, FALSE)

\* the declarations of the runs that document: with and without doc_spec,
\* with and without section, with and without command-line binding
DocMenu == {DeclFoo, DeclFooAgain,
            WithDoc(DeclFoo, DocSpec(SecBeta, <<"T","h","e"," ","f","o","o",".">>)),
            WithDoc(DeclNum, DocSpec(SecAlpha, <<"A"," ","n","u","m","b","e","r",".">>)),
            WithDoc(DeclNum, DocSpec(SecBeta, <<"A"," ","n","u","m","b","e","r",".">>)),
            WithDoc(DeclG, DocSpec(NoneV, <<"A"," ","f","l","a","g",".">>)),
            WithDoc(DeclG, DocSpec(SecBeta, <<"A"," ","f","l","a","g",".">> \o <<"\n">> \o <<"*"," ","o","n"," ","o","r"," ","o","f","f">>)),
            WithDoc(DeclZedUpper, DocSpec(SecBeta, <<>>)),
            WithDoc(DeclIgnAgain, DocSpec(SecAlpha, <<"N","o"," ","o","p","t","i","o","n",".">>))}

\* the doc_section_order a registry is constructed with
OrderMenu == {NoneV, ListV(<<SecBeta, SecAlpha>>), ListV(<<SecAlpha>>)}

\* the indent make_doc is called with
IndentMenu == {0, 2}

----------------------------------------------------------------------------
(* The registry as a state machine                                         *)

MaxParams == 2

\* the last call: the operation and the class of its exception
NoCall == [op |-> "Conf", cls |-> "none"]

Call(op, e) == [op |-> op, cls |-> e.cls]

\* Conf(default_conf_file_name=..., default_conf_file_locations=...,
\* default_env_prefix=..., default_allow_unset_values=...,
\* doc_section_order=order) with no param_dict
Constructed(order) ==
    /\ objs = <<>>
    /\ value = <<>>
    /\ params = EmptyDict
    /\ params_by_conffile_name = EmptyDict
    /\ all_short_opts_so_far = {}
    /\ all_long_opts_so_far = {}
    /\ default_allow_unset_values \in BOOLEAN
    /\ config_file = NoneV
    /\ doc_section_order = order
    /\ last = NoCall

\* the registry constructed without doc_section_order
Init == Constructed(NoneV)

Add(a) ==
    /\ Len(objs) < MaxParams
    /\ \E r \in {AddOp(a)} :
          /\ objs' = r.objs
          /\ value' = r.value
          /\ params' = r.params
          /\ params_by_conffile_name' = r.by_conffile
          /\ all_short_opts_so_far' = r.shorts
          /\ all_long_opts_so_far' = r.longs
          /\ last' = Call("add", r.err)
    /\ UNCHANGED <<default_allow_unset_values, config_file,
                   doc_section_order>>

Get(name) ==
    /\ \E r \in {GetOp(value, name)} : last' = Call("get", r.err)
    /\ UNCHANGED <<objs, value, params, params_by_conffile_name, all_short_opts_so_far,
                   all_long_opts_so_far, default_allow_unset_values, config_file,
                   doc_section_order>>

GetByConffileName(key) ==
    /\ \E r \in {GetByConffileNameOp(value, key)} :
          last' = Call("get_by_conffile_name", r.err)
    /\ UNCHANGED <<objs, value, params, params_by_conffile_name, all_short_opts_so_far,
                   all_long_opts_so_far, default_allow_unset_values, config_file,
                   doc_section_order>>

\* keys() returns KeysOp and cannot raise
Keys ==
    /\ last' = Call("keys", NoErr)
    /\ UNCHANGED <<objs, value, params, params_by_conffile_name, all_short_opts_so_far,
                   all_long_opts_so_far, default_allow_unset_values, config_file,
                   doc_section_order>>

\* items() returns ItemsOp(value) and cannot raise
Items ==
    /\ last' = Call("items", NoErr)
    /\ UNCHANGED <<objs, value, params, params_by_conffile_name, all_short_opts_so_far,
                   all_long_opts_so_far, default_allow_unset_values, config_file,
                   doc_section_order>>

Set(name, raw) ==
    /\ \E r \in {SetOp(value, name, raw)} :
          /\ value' = r.vals
          /\ last' = Call("set", r.err)
    /\ UNCHANGED <<objs, params, params_by_conffile_name, all_short_opts_so_far,
                   all_long_opts_so_far, default_allow_unset_values, config_file,
                   doc_section_order>>

Acquire(in) ==
    /\ \E out \in AcquireOutcomes(in) :
          /\ value' = out.vals
          /\ config_file' = out.config_file
          /\ last' = Call("acquire", out.err)
    /\ UNCHANGED <<objs, params, params_by_conffile_name, all_short_opts_so_far,
                   all_long_opts_so_far, default_allow_unset_values,
                   doc_section_order>>

Next ==
    \/ \E a \in DeclMenu : Add(a)
    \/ \E name \in NameMenu : Get(name)
    \/ \E key \in KeyMenu : GetByConffileName(key)
    \/ Keys
    \/ Items
    \/ \E name \in NameMenu, raw \in RawMenu : Set(name, raw)
    \/ \E in \in AcquireInputs : Acquire(in)

Spec == Init /\ [][Next]_vars

\* the runs that only declare parameters, from a wider choice
NextAdd == \E a \in AddMenu : Add(a)

SpecAdd == Init /\ [][NextAdd]_vars

MakeDoc(indent) ==
    /\ \E r \in {MakeDocOp(indent)} : last' = Call("make_doc", r.err)
    /\ UNCHANGED <<objs, value, params, params_by_conffile_name, all_short_opts_so_far,
                   all_long_opts_so_far, default_allow_unset_values, config_file,
                   doc_section_order>>

\* the registry constructed with or without doc_section_order
InitDoc == \E order \in OrderMenu : Constructed(order)

NextDoc ==
    \/ \E a \in DocMenu : Add(a)
    \/ \E indent \in IndentMenu : MakeDoc(indent)

\* the runs that declare parameters and make the documentation
SpecDoc == InitDoc /\ [][NextDoc]_vars

----------------------------------------------------------------------------
(* Properties                                                              *)

\* the descriptor the name index holds for a name, and its stored value
Descriptor(name) == objs[params[name]]

Stored(vals, name) == vals[params[name]]

Foo == <<"f","o","o">>

\* foo is declared with the key FOO and the options -f/--foo, and holds its
\* default
FooAtDefault ==
    /\ Foo \in DOMAIN params
    /\ ~Descriptor(Foo).ignore
    /\ Descriptor(Foo).conffile = StrV(<<"F","O","O">>)
    /\ Descriptor(Foo).cmd_line = TupleV(<<StrV(<<"f">>), StrV(Foo)>>)
    /\ ~IsNone(Descriptor(Foo).default)
    /\ Stored(value, Foo) = Descriptor(Foo).default

InFile(in) == in.fs[PathOne].kind = "file"

InEnv(in) == <<"P","_","F","O","O">> \in DOMAIN in.environ

OnCmdLine(in) == in.args # <<>>

\* the value of the source of highest precedence that gives foo one
ByPrecedence(in) ==
    IF OnCmdLine(in) THEN StrV(FooOnCmdLine)
    ELSE IF InEnv(in) THEN StrV(FooInEnv)
    ELSE IF InFile(in) THEN StrV(FooInFile)
    ELSE Descriptor(Foo).default

\* C1: after an acquire that returns normally, get gives a parameter the
\* value of the command line if the option is there, else that of the
\* environment if the variable is set, else that of the config file if the
\* key is in it, else its default: the sources are applied in the order
\* config file, environment, command line.
C1_Precedence ==
    FooAtDefault =>
        \A in \in PrecedenceInputs : \A out \in AcquireOutcomes(in) :
            out.err = NoErr => GetOp(out.vals, Foo) = Return(ByPrecedence(in))

\* foo at its default, and an acquire with foo in all three sources returns
\* normally
C1_AllThreeSources ==
    /\ FooAtDefault
    /\ \E in \in PrecedenceInputs :
          /\ InFile(in) /\ InEnv(in) /\ OnCmdLine(in)
          /\ \E out \in AcquireOutcomes(in) :
                out.err = NoErr /\ GetOp(out.vals, Foo) = Return(StrV(FooOnCmdLine))

\* C2: add with a name that is already declared fails with a ParamError,
\* whatever key and options the declaration carries, and the name index and
\* the descriptors stay as they were.
C2_DuplicateNameFails ==
    \A a \in AddMenu :
        a.name \in DOMAIN params =>
            Bind(AddOp(a), LAMBDA r : /\ r.err.cls = "ParamError"
                                      /\ r.params = params
                                      /\ r.objs = objs)

\* the short and the long flag of a command line tuple, None without one
ShortFlag(cmd_line) == IF Truthy(cmd_line) THEN cmd_line.v[1] ELSE NoneV

LongFlag(cmd_line) == IF Truthy(cmd_line) THEN cmd_line.v[2] ELSE NoneV

\* two values are the same flag or key
SameNotNone(x, y) == ~IsNone(x) /\ x = y

\* the resolved key or a resolved flag of the declaration a is that of the
\* descriptor p
Collides(a, p) ==
    \/ SameNotNone(AddConffile(a), p.conffile)
    \/ SameNotNone(ShortFlag(AddCmdLine(a)), ShortFlag(p.cmd_line))
    \/ SameNotNone(LongFlag(AddCmdLine(a)), LongFlag(p.cmd_line))

\* the descriptors p and q share a key or a flag
Share(p, q) ==
    \/ SameNotNone(p.conffile, q.conffile)
    \/ SameNotNone(ShortFlag(p.cmd_line), ShortFlag(q.cmd_line))
    \/ SameNotNone(LongFlag(p.cmd_line), LongFlag(q.cmd_line))

\* C3: add of a declaration whose resolved short flag, long flag or key is
\* that of a descriptor already made fails and adds no descriptor, so no two
\* descriptors share a short flag, a long flag or a key that is not None.
C3_FlagsAndKeysUnique ==
    /\ \A a \in AddMenu :
          (\E i \in DOMAIN objs : Collides(a, objs[i])) =>
              Bind(AddOp(a), LAMBDA r : /\ r.err.cls = "ParamError"
                                        /\ r.params = params
                                        /\ r.objs = objs)
    /\ \A i, j \in DOMAIN objs : i # j => ~Share(objs[i], objs[j])

\* zed has been refused for its long option --foo, that of foo, after its
\* short option -z was noted, and fig can only be refused for its -f
C3_SecondAddRefused ==
    /\ last = Call("add", ParamError(<<"z","e","d">>, <<>>))
    /\ DOMAIN params = {Foo}
    /\ <<"z">> \in all_short_opts_so_far
    /\ Collides(DeclFig, Descriptor(Foo))
    /\ AddOp(DeclFig).err = ParamError(DeclFig.name,
                                        <<"Short option '-", "f", "' already in use.">>)

Num == <<"n","u","m">>

Ign == <<"i","g","n">>

\* C4: for a declared parameter that is not ignored and a raw value that
\* validate accepts, set(name, raw) returns normally and get(name) then
\* returns validate(raw), the converted value.
C4_SetThenGet ==
    \A name \in DOMAIN params, raw \in RawMenu :
        ~Descriptor(name).ignore /\ ~Raised(Validate(Descriptor(name), raw)) =>
            Bind(SetOp(value, name, raw),
                 LAMBDA r : /\ r.err = NoErr
                            /\ GetOp(r.vals, name) = Return(Validate(Descriptor(name), raw).ret))

\* a set has returned, num holds the integer 7, and that is what validate
\* makes of the string "7", which set stores again
C4_IntegerFromString ==
    /\ last = Call("set", NoErr)
    /\ Num \in DOMAIN params
    /\ ~Descriptor(Num).ignore
    /\ Stored(value, Num) = IntV(7)
    /\ Validate(Descriptor(Num), StrV(<<"7">>)) = Return(IntV(7))
    /\ SetOp(value, Num, StrV(<<"7">>)) = Assigned(NoErr, value)

\* C5: a set that raises leaves the stored value of every parameter as it
\* was before the call.
C5_FailedSetChangesNothing ==
    \A name \in NameMenu, raw \in RawMenu :
        Bind(SetOp(value, name, raw), LAMBDA r : r.err # NoErr => r.vals = value)

\* a set has raised, and here set raises for a value that is not in the
\* allowed values, for one out of the allowed range and for one that cannot
\* be converted, while foo and num hold values
C5_RejectedValues ==
    /\ last = Call("set", ParamError(Foo, <<>>))
    /\ {Foo, Num} \subseteq DOMAIN params
    /\ ~IsNone(Stored(value, Foo)) /\ ~IsNone(Stored(value, Num))
    /\ SetOp(value, Foo, IntV(40)).err
          = ParamError(Foo, <<"'", "4", "0", "' is not one of the allowed values.">>)
    /\ SetOp(value, Num, IntV(40)).err
          = ParamError(Num, <<"'", "4", "0", "' is not in the allowed range.">>)
    /\ SetOp(value, Num, StrV(<<"b">>)).err
          = ParamError(Num, <<"Cannot convert '", "b", "' to type '", PARAM_TYPE_INT, "'.">>)

\* C6: get, set and get_by_conffile_name raise the ParamError "Unknown
\* parameter." for a name or key that is not registered, and ParamIgnored,
\* a ParamError of its own class, for one whose descriptor is marked ignore;
\* they return no value then, and set changes no stored value.
C6_UnknownAndIgnored ==
    /\ \A name \in NameMenu \ DOMAIN params :
          /\ GetOp(value, name) = Raise(ParamError(name, <<"Unknown parameter.">>))
          /\ \A raw \in RawMenu :
                SetOp(value, name, raw)
                  = Assigned(ParamError(name, <<"Unknown parameter.">>), value)
    /\ \A name \in NameMenu \cap DOMAIN params :
          Descriptor(name).ignore =>
            /\ GetOp(value, name)
                  = Raise(ParamIgnored(name, <<"Parameter configured to be ignored.">>))
            /\ IsParamError(GetOp(value, name).err)
            /\ GetOp(value, name).err.cls # "ParamError"
            /\ \A raw \in RawMenu :
                  SetOp(value, name, raw)
                    = Assigned(ParamIgnored(name, <<"Parameter configured to be ignored.">>),
                               value)
    /\ \A key \in KeyMenu \ DOMAIN params_by_conffile_name :
          GetByConffileNameOp(value, key) = Raise(ParamError(key, <<"Unknown parameter.">>))
    /\ \A key \in KeyMenu \cap DOMAIN params_by_conffile_name :
          objs[params_by_conffile_name[key]].ignore =>
            GetByConffileNameOp(value, key)
              = Raise(ParamIgnored(key, <<"Parameter configured to be ignored.">>))

\* a set of the ignored ign has raised ParamIgnored, get of ign raises it
\* too, and bar is not registered
C6_IgnoredRefused ==
    /\ last = Call("set", ParamIgnored(Ign, <<>>))
    /\ Ign \in DOMAIN params
    /\ Descriptor(Ign).ignore
    /\ GetOp(value, Ign).err.cls = "ParamIgnored"
    /\ GetByConffileNameOp(value, <<"I","G","N">>).err.cls = "ParamIgnored"
    /\ <<"b","a","r">> \notin DOMAIN params
    /\ GetOp(value, <<"b","a","r">>).err.cls = "ParamError"

\* C7: keys() is the set of the declared names whose descriptor is not
\* marked ignore, with or without a value; items() maps exactly those names
\* to their stored values, which are what get returns for them.
C7_KeysAndItems ==
    /\ KeysOp = {n \in DOMAIN params : ~Descriptor(n).ignore}
    /\ DOMAIN ItemsOp(value) = KeysOp
    /\ \A n \in KeysOp : GetOp(value, n) = Return(ItemsOp(value)[n])

\* items() was called with the ignored ign and num, which has no value,
\* declared: num alone is listed
C7_IgnoredLeftOut ==
    /\ last = Call("items", NoErr)
    /\ DOMAIN params = {Ign, Num}
    /\ Descriptor(Ign).ignore
    /\ KeysOp = {Num}
    /\ ItemsOp(value) = [n \in {Num} |-> NoneV]

\* the allow_unset_values that decides: the argument of acquire unless it is
\* None, else the default of the registry
Effective(in) ==
    IF IsNone(in.allow_unset_values) THEN default_allow_unset_values
    ELSE Truthy(in.allow_unset_values)

RequiresValue(n) == ParamError(n, <<"Requires a value, nothing has been set.">>)

\* C8: if the effective allow_unset_values is false, acquire returns normally
\* only with a value other than None stored for every declared parameter
\* that is not ignored, and with one unset it raises, its missing-value
\* error naming an unset parameter; if it is true, acquire raises no
\* missing-value error and get returns None for the unset parameters.
C8_CompletenessSweep ==
    \A in \in AcquireInputs : \A out \in AcquireOutcomes(in) :
        /\ ~Effective(in) /\ out.err = NoErr => UnsetNames(out.vals) = {}
        /\ ~Effective(in) /\ UnsetNames(out.vals) # {} => out.err # NoErr
        /\ \A n \in DOMAIN params :
              out.err = RequiresValue(n) => ~Effective(in) /\ n \in UnsetNames(out.vals)
        /\ Effective(in) /\ out.err = NoErr =>
              \A n \in UnsetNames(out.vals) : GetOp(out.vals, n) = Return(NoneV)

\* num is unset and the default of the registry is false: acquire without
\* sources raises the missing-value error for num by that default and with
\* the argument False, and returns normally with the argument True
C8_UnsetParameter ==
    /\ last = Call("acquire", RequiresValue(Num))
    /\ ~default_allow_unset_values
    /\ UnsetNames(value) = {Num}
    /\ \A au \in {NoneV, BoolV(FALSE)} :
          AcquireOutcomes(In(<<>>, NoneV, NoneV, au, Fs(NoFile, NoFile, NoFile),
                             Env(<<>>, <<>>)))
            = {Phase(RequiresValue(Num), value, config_file)}
    /\ AcquireOutcomes(In(<<>>, NoneV, NoneV, BoolV(TRUE), Fs(NoFile, NoFile, NoFile),
                          Env(<<>>, <<>>)))
          = {Phase(NoErr, value, config_file)}
    /\ GetOp(value, Num) = Return(NoneV)

\* the key IGN is that of a descriptor marked ignore
KeyOfIgnored ==
    /\ <<"I","G","N">> \in DOMAIN params_by_conffile_name
    /\ objs[params_by_conffile_name[<<"I","G","N">>]].ignore

\* the options -i and --ign are those of a declared parameter marked ignore
OptionsOfIgnored ==
    \E n \in DOMAIN params :
        /\ Descriptor(n).ignore
        /\ Descriptor(n).cmd_line = TupleV(<<StrV(<<"i">>), StrV(Ign)>>)

\* the sources of a call name only what belongs to an ignored parameter
OfIgnored(c) ==
    /\ c.src.args # c.rest.args => OptionsOfIgnored
    /\ c.src.fs # c.rest.fs \/ c.src.environ # c.rest.environ => KeyOfIgnored

\* C9: the key, the environment variable and the options of an ignored
\* parameter are recognized and discarded: acquire ends as it does without
\* them in its sources, with the same exception if any and the same values
\* stored.
C9_IgnoredDiscarded ==
    \A c \in IgnoredCases :
        OfIgnored(c) => AcquireOutcomes(c.src) = AcquireOutcomes(c.rest)

\* every descriptor that has a key is the one the name index holds for its
\* name: no declared name was declared again
NoneDeclaredAgain ==
    \A k \in DOMAIN params_by_conffile_name :
        params[objs[params_by_conffile_name[k]].name] = params_by_conffile_name[k]

\* C9, as long as no declared name was declared again: the key, the
\* environment variable and the options of an ignored parameter are
\* recognized and discarded.
C9_DiscardedUnlessDeclaredAgain ==
    NoneDeclaredAgain =>
        \A c \in IgnoredCases :
            OfIgnored(c) => AcquireOutcomes(c.src) = AcquireOutcomes(c.rest)

\* C10: without config_filename, only the file at the first search location
\* that has one is parsed: acquire ends as it does with no file at the later
\* location.
C10_FirstFoundOnly ==
    \A in \in SearchInputs :
        IsNone(in.config_filename) /\ in.fs[PathOne].kind = "file" =>
            AcquireOutcomes(in) = AcquireOutcomes([in EXCEPT !.fs[PathTwo] = NoFile])

\* the state acquire starts from
St0 == Phase(NoErr, value, config_file)

\* the first search location that has a file of any kind, 0 if none has
FirstPresent(fs) ==
    IF \A i \in DOMAIN DefaultConfFiles : fs[DefaultConfFiles[i]].kind = "absent" THEN 0
    ELSE CHOOSE i \in DOMAIN DefaultConfFiles :
            /\ fs[DefaultConfFiles[i]].kind # "absent"
            /\ \A j \in 1..(i - 1) : fs[DefaultConfFiles[j]].kind = "absent"

\* acquire ends with the failure of the file fname if it has one: a file
\* that cannot be read, or a file with a line that raises
EndsAtFailure(in, fname) ==
    IF in.fs[fname].kind = "denied"
    THEN AcquireOutcomes(in)
           = {Phase(ParamError(fname, <<"Error processing config file.">>),
                    value, config_file)}
    ELSE Bind(ParseConfigFile(value, in.fs[fname].lines),
              LAMBDA r : r.err # NoErr =>
                           AcquireOutcomes(in) = {Phase(r.err, r.vals, StrV(fname))})

\* C11: in the search, locations without the file are passed over: with no
\* file anywhere acquire goes on as if there were no config-file phase, and
\* if the first file found cannot be read or has a line that raises, acquire
\* ends with that failure whatever the later locations hold; with an explicit
\* config_filename an absent file makes acquire fail.
C11_SearchFailures ==
    \A in \in AcquireInputs :
        IF IsNone(in.config_filename)
        THEN Bind(FirstPresent(in.fs),
                  LAMBDA k : IF k = 0 THEN AcquireOutcomes(in) = AfterConfigFile(St0, in)
                             ELSE EndsAtFailure(in, DefaultConfFiles[k]))
        ELSE in.fs[in.config_filename.v].kind = "absent" =>
                AcquireOutcomes(in)
                  = {Phase(PyError("IOError", <<"No such file or directory">>),
                           value, config_file)}

\* foo is declared and still at its default after an acquire that failed; the
\* search stops at an unreadable first location and at a first file with a
\* bad line, and passes over an absent first location
C11_SearchAborted ==
    /\ FooAtDefault
    /\ last = [op |-> "acquire", cls |-> "ParamError"]
    /\ AcquireOutcomes(In(<<>>, NoneV, NoneV, BoolV(TRUE),
                          Fs(Unreadable, FileB, FileBad), Env(<<>>, <<>>)))
         = {Phase(ParamError(PathOne, <<"Error processing config file.">>),
                  value, config_file)}
    /\ \A o \in AcquireOutcomes(In(<<>>, NoneV, NoneV, BoolV(TRUE),
                                   Fs(FileBad, FileB, NoFile), Env(<<>>, <<>>))) :
          IsParamError(o.err) /\ Stored(o.vals, Foo) = Stored(value, Foo)
    /\ \A o \in AcquireOutcomes(In(<<>>, NoneV, NoneV, BoolV(TRUE),
                                   Fs(NoFile, FileB, FileC), Env(<<>>, <<>>))) :
          o.err = NoErr /\ Stored(o.vals, Foo) = StrV(FooInFile)

\* lines of a config file: blank, comment only, one, two and more tokens
LineMenu ==
    {<<>>,
     <<" "," ">>,
     <<"\t">>,
     <<"#"," ","o","n","l","y">>,
     <<" "," ","#"," ","c">>,
     <<"#","F","O","O"," ","b">>,
     <<"F","O","O">>,
     <<" ","F","O","O"," "," ">>,
     <<"F","O","O"," ","#","b">>,
     <<"F","O","O"," ","b">>,
     <<" ","F","O","O","\t","b"," "," ","#"," ","t","a","i","l">>,
     <<"F","O","O"," ","b","#","c"," ","d">>,
     <<"F","O","O"," ","b"," ","c">>,
     <<"F","O","O"," "," ","c"," ","d"," ","e">>,
     <<"N","O","P","E"," ","b">>,
     <<"N","O","P","E">>,
     <<"F","O","O"," ","x">>,
     <<"G"," ","y","e","s">>,
     <<"G"," ","y","e","s"," ","n","o">>,
     <<"N","U","M"," ","7"," ","#">>,
     <<"N","U","M"," ","7"," ","8">>}

\* physical line numbers
LineNumbers == {1, 3, 12}

\* the text of a line in front of its comment
CodeOf(line) == SubSeq(line, 1, (CHOOSE n \in 0..Len(line) :
                                    /\ \A j \in 1..n : line[j] # "#"
                                    /\ n < Len(line) => line[n + 1] = "#"))

\* the number of whitespace-separated tokens of s
TokenCount(s) ==
    Cardinality({j \in DOMAIN s : s[j] \notin WhiteChars
                                   /\ (j = 1 \/ s[j - 1] \in WhiteChars)})

\* the error of a malformed line i
MalformedLine(i) ==
    [cls |-> "ParamError", msg |-> <<"Line ">> \o NatToStr(i) \o <<": ", "Malformed line.">>]

SpacedValue == <<"x","y","z"," ","b","a","z">>

\* C13: a line made of a declared key, whitespace, a value with whitespace
\* inside and a trailing comment is accepted: it ends as set does on the
\* parameter of that key with the whole value, with any error of set reported
\* for the line.
C13_ValueWithSpaces ==
    \A key \in DOMAIN params_by_conffile_name :
        ParseLine(value, 1, key \o <<" "," "," "," "," ">> \o SpacedValue \o <<" "," ","#"," ","c">>)
          = SetFromLine(value, 1, key, SpacedValue)

\* config files by their lines, failing at different physical lines
FileMenu ==
    {FileC.lines, FileBad.lines, FileShort.lines, FileLong.lines,
     <<<<"#"," ","f","i","r","s","t">>, <<>>, <<" ","N","O","P","E"," ","b">>>>,
     <<<<>>, <<"#"," ","c">>, <<"F","O","O"," ","x">>, <<"N","U","M"," ","7">>>>}

\* the line of a key and a value, indented and with a trailing comment
KeyValueLine(key, raw) == <<" ">> \o key \o <<" ", " ">> \o raw \o <<" ", "#", "c">>

\* the message of an error with the context of line i
InLine(i, msg) == <<"Line ">> \o NatToStr(i) \o <<": ">> \o msg

\* what the claim says of the line i that holds key and raw, with r what
\* parsing it gives
ReportedForLine(i, key, raw, r) ==
    IF key \notin DOMAIN params_by_conffile_name
    THEN r = Assigned([cls |-> "ParamError",
                       msg |-> InLine(i, <<"Unknown parameter '">> \o key \o <<"'.">>)],
                      value)
    ELSE Bind(objs[params_by_conffile_name[key]].name,
              LAMBDA name :
                Bind(SetOp(value, name, StrV(raw)),
                     LAMBDA set :
                       /\ r.err # NoErr =>
                            /\ set.err.cls = "ParamError"
                            /\ StartsWith(set.err.msg, <<"Parameter '">> \o name \o <<"': ">>)
                            /\ r = Assigned([cls |-> "ParamError",
                                             msg |-> InLine(i, set.err.msg)], value)
                       /\ set.err.cls = "ParamError" => r.err # NoErr))

\* C14: a config-file line with an unknown key, or with a value that set
\* rejects, raises an error whose message is "Line <i>: " followed by
\* "Unknown parameter '<key>'." or by the message of the rejection, which
\* starts with "Parameter '<name>': "; the error of a file is the error of
\* its first failing line at its index in the file, blank and comment lines
\* counted.
C14_LineNumberedErrors ==
    /\ \A key \in KeyMenu \cup {<<"N","O","P","E">>}, raw \in {<<"b">>, <<"x">>, <<"7">>, <<"4","0">>, <<"y","e","s">>}, i \in LineNumbers :
          ReportedForLine(i, key, raw, ParseLine(value, i, KeyValueLine(key, raw)))
    /\ \A lines \in FileMenu :
          Bind(ParseConfigFile(value, lines),
               LAMBDA r : r.err # NoErr =>
                            \E n \in DOMAIN lines :
                                /\ ParseLine(value, n, lines[n]).err = r.err
                                /\ \A j \in 1..(n - 1) :
                                      ParseLine(value, j, lines[j]).err = NoErr)

\* foo is declared with its allowed values and an acquire has failed; a
\* rejected value on the third line of a file, after a blank line and a
\* comment line, is reported with "Line 3" and the text of the rejection
C14_RejectedOnLineThree ==
    /\ FooAtDefault
    /\ last = [op |-> "acquire", cls |-> "ParamError"]
    /\ ParseConfigFile(value, <<<<>>, <<"#"," ","c">>, <<"F","O","O"," ","x">>, <<"N","U","M"," ","7">>>>).err
         = [cls |-> "ParamError",
            msg |-> <<"Line ", "3", ": ", "Parameter '", "f", "o", "o", "': ",
                      "'", "x", "' is not one of the allowed values.">>]
    /\ \E o \in AcquireOutcomes(In(<<>>, NoneV, NoneV, NoneV,
                                   Fs(NoFile, FileBad, NoFile), Env(<<>>, <<>>))) :
          /\ o.err.cls = "ParamError"
          /\ StartsWith(o.err.msg, <<"Line ">>)

\* os.environ with the variables of pairs, each a name and a value
EnvFrom(pairs) == [k \in {p[1] : p \in pairs} |-> (CHOOSE p \in pairs : p[1] = k)[2]]

\* environments: variables of declared and undeclared keys, with the default
\* prefix, another prefix and none
EnvMenu ==
    {EnvFrom({<<<<"P","_","F","O","O">>, <<"c">>>>}),
     EnvFrom({<<<<"P","_","F","O","O">>, <<"x">>>>}),
     EnvFrom({<<<<"P","_","N","O","P","E">>, <<"c">>>>}),
     EnvFrom({<<<<"P","_","F","O","O">>, <<"c">>>>, <<<<"P","_","N","U","M">>, <<"7">>>>, <<<<"P","_","N","O","P","E">>, <<"z">>>>}),
     EnvFrom({<<<<"P","_","I","G","N">>, <<"5">>>>, <<<<"P","_","F","O","O">>, <<"d">>>>}),
     EnvFrom({<<<<"Q","_","F","O","O">>, <<"b">>>>, <<<<"P","_","N","U","M">>, <<"4","0">>>>}),
     EnvFrom({<<<<"F","O","O">>, <<"b">>>>, <<<<"P","_","G">>, <<"y","e","s">>>>}),
     EnvFrom({<<<<"P","_","N","U","M">>, <<"4","0">>>>, <<<<"P","_","F","O","O">>, <<"b">>>>}),
     EnvFrom({})}

\* the values of env_prefix: the default of the registry and one of the call
PrefixMenu == {NoneV, StrV(<<"Q", "_">>)}

\* the keys of descriptors whose variable, prefix in front, is in environ
Consulted(environ, prefix) ==
    {k \in DOMAIN params_by_conffile_name : (prefix \o k) \in DOMAIN environ}

\* the parameter that set is called for when the variable of key is found
ParamOfKey(key) == objs[params_by_conffile_name[key]].name

\* set on the parameter of key with the value of its variable
SetFromEnv(environ, prefix, key) ==
    SetOp(value, ParamOfKey(key), StrV(environ[prefix \o key]))

\* the error the claim has for the rejected variable of key
EnvRejected(environ, prefix, key) ==
    [cls |-> "ParamError",
     msg |-> <<"Environment variable ">> \o prefix \o key \o <<": ">>
             \o SetFromEnv(environ, prefix, key).err.msg]

\* what the claim says of r, what the environment phase leaves behind
EnvPhaseAsClaimed(environ, prefix, r) ==
    Bind(Consulted(environ, prefix),
         LAMBDA keys :
           /\ r.config_file = config_file
           /\ \A n \in DOMAIN params :
                 (\A k \in keys : ParamOfKey(k) # n) => Stored(r.vals, n) = Stored(value, n)
           /\ keys = {} => r = St0
           /\ r.err = NoErr =>
                 \A k \in keys :
                    Bind(SetFromEnv(environ, prefix, k),
                         LAMBDA set :
                           \/ set.err.cls = "ParamIgnored"
                              /\ Stored(r.vals, ParamOfKey(k)) = Stored(value, ParamOfKey(k))
                           \/ set.err = NoErr
                              /\ Stored(r.vals, ParamOfKey(k)) = Stored(set.vals, ParamOfKey(k)))
           /\ r.err # NoErr =>
                 \E k \in keys : /\ SetFromEnv(environ, prefix, k).err.cls = "ParamError"
                                 /\ r.err = EnvRejected(environ, prefix, k)
           /\ (\E k \in keys : SetFromEnv(environ, prefix, k).err.cls = "ParamError")
                 => r.err # NoErr)

\* C15: the environment phase consults the variables named prefix + key for
\* the keys of the declared parameters and no other: each one found is
\* assigned through set unless the parameter is ignored, the parameters
\* without a variable keep their values, a variable of an undeclared key or
\* with another prefix has no effect, and a rejected value raises
\* "Environment variable <name>: " followed by the message of the rejection.
C15_EnvironmentPhase ==
    \A environ \in EnvMenu, env_prefix \in PrefixMenu :
        \A order \in Orders(KeysInEnviron(environ, env_prefix)) :
            EnvPhaseAsClaimed(environ,
                              IF IsNone(env_prefix) THEN default_env_prefix ELSE env_prefix.v,
                              ProcessEnvVars(St0, environ, env_prefix, order))

\* foo is declared and an acquire has failed; P_FOO = c is stored, P_FOO = x
\* is rejected under the name of the variable, and P_NOPE is passed over
C15_VariableRejected ==
    /\ FooAtDefault
    /\ last = [op |-> "acquire", cls |-> "ParamError"]
    /\ Stored(ProcessEnvVars(St0, Env(<<"c">>, <<>>), NoneV, <<<<"F", "O", "O">>>>).vals, Foo)
         = StrV(<<"c">>)
    /\ ProcessEnvVars(St0, Env(<<"x">>, <<>>), NoneV, <<<<"F", "O", "O">>>>).err
         = [cls |-> "ParamError",
            msg |-> <<"Environment variable ", "P", "_", "F", "O", "O", ": ",
                      "Parameter '", "f", "o", "o", "': ",
                      "'", "x", "' is not one of the allowed values.">>]
    /\ ProcessEnvVars(St0, EnvFrom({<<<<"P","_","N","O","P","E">>, <<"c">>>>}), NoneV, <<>>) = St0
    /\ \E o \in AcquireOutcomes(In(<<>>, NoneV, NoneV, NoneV, Fs(FileB, NoFile, NoFile),
                                   Env(<<"x">>, <<>>))) :
          StartsWith(o.err.msg, <<"Environment variable ">>)

\* command lines, each with the options and arguments it holds in the order
\* given
CmdLineMenu ==
    {[args |-> <<<<"-","f">>, <<"b">>>>,
      opts |-> <<Opt(<<"-","f">>, <<"b">>)>>],
     [args |-> <<<<"-","f">>, <<"b">>, <<"-","-","f","o","o","=","d">>>>,
      opts |-> <<Opt(<<"-","f">>, <<"b">>), Opt(<<"-","-","f","o","o">>, <<"d">>)>>],
     [args |-> <<<<"-","-","f","o","o","=","c">>, <<"-","f">>, <<"b">>, <<"-","n">>, <<"7">>>>,
      opts |-> <<Opt(<<"-","-","f","o","o">>, <<"c">>), Opt(<<"-","f">>, <<"b">>), Opt(<<"-","n">>, <<"7">>)>>],
     [args |-> <<<<"-","g">>>>,
      opts |-> <<Opt(<<"-","g">>, <<>>)>>],
     [args |-> <<<<"-","g">>, <<"-","n">>, <<"4","0">>>>,
      opts |-> <<Opt(<<"-","g">>, <<>>), Opt(<<"-","n">>, <<"4","0">>)>>],
     [args |-> <<<<"-","i">>, <<"5">>, <<"-","f">>, <<"d">>>>,
      opts |-> <<Opt(<<"-","i">>, <<"5">>), Opt(<<"-","f">>, <<"d">>)>>],
     [args |-> <<<<"-","x">>>>,
      opts |-> <<Opt(<<"-","x">>, <<>>)>>],
     [args |-> <<<<"-","f">>, <<"b">>, <<"-","x">>>>,
      opts |-> <<Opt(<<"-","f">>, <<"b">>), Opt(<<"-","x">>, <<>>)>>],
     [args |-> <<<<"-","n">>, <<"7">>, <<"-","n">>, <<"8">>>>,
      opts |-> <<Opt(<<"-","n">>, <<"7">>), Opt(<<"-","n">>, <<"8">>)>>],
     [args |-> <<<<"-","f","b">>, <<"-","-","f","o","o">>, <<"c">>>>,
      opts |-> <<Opt(<<"-","f">>, <<"b">>), Opt(<<"-","-","f","o","o">>, <<"c">>)>>],
     [args |-> <<<<"-","f">>, <<"x">>, <<"-","n">>, <<"7">>>>,
      opts |-> <<Opt(<<"-","f">>, <<"x">>), Opt(<<"-","n">>, <<"7">>)>>],
     [args |-> <<>>,
      opts |-> <<>>]}

\* the parameters of the registry whose descriptor binds the option o
BoundTo(o) ==
    {n \in DOMAIN params :
        \/ /\ ~IsNone(ShortFlag(Descriptor(n).cmd_line))
           /\ o = <<"-">> \o ShortFlag(Descriptor(n).cmd_line).v
        \/ /\ ~IsNone(LongFlag(Descriptor(n).cmd_line))
           /\ o = <<"-", "-">> \o LongFlag(Descriptor(n).cmd_line).v}

\* the value set is called with for an option of the parameter n
ValueFor(n, a) == IF Descriptor(n).param_type = PARAM_TYPE_BOOL THEN BoolV(TRUE) ELSE StrV(a)

\* the options applied one after the other as the claim has it: set on the
\* bound parameter unless it is ignored, ending at the first set that raises
RECURSIVE InOrderFor(_, _, _)
InOrder(st, opts) ==
    IF opts = <<>> THEN st
    ELSE InOrderFor(st, opts, CHOOSE n \in BoundTo(Head(opts).o) : TRUE)

InOrderFor(st, opts, n) ==
    IF Descriptor(n).ignore THEN InOrder(st, Tail(opts))
    ELSE Bind(SetOp(st.vals, n, ValueFor(n, Head(opts).a)),
              LAMBDA r : IF r.err # NoErr THEN [st EXCEPT !.err = r.err, !.vals = r.vals]
                         ELSE InOrder([st EXCEPT !.vals = r.vals], Tail(opts)))

\* C16: a command line with an option that no descriptor of the registry
\* binds raises an error that starts with "Command line option: " and sets
\* nothing; otherwise the options are applied in the order given, each one
\* of a parameter that is not ignored by set on that parameter, with the
\* argument of the option, or with true for a BOOLEAN parameter; the last
\* occurrence of a repeated option is the one that stays.
C16_CommandLinePhase ==
    \A c \in CmdLineMenu :
        Bind(ProcessCmdLine(St0, c.args),
             LAMBDA r :
               IF \E i \in DOMAIN c.opts : BoundTo(c.opts[i].o) = {}
               THEN /\ r.err.cls = "ParamError"
                    /\ StartsWith(r.err.msg, <<"Command line option", ": ">>)
                    /\ r.vals = value
               ELSE r = InOrder(St0, c.opts))

\* foo and g are declared and the last acquire passed: of -f b --foo=d the
\* d stays, -g sets g to true, and -x is refused as a command line option
C16_LastOccurrenceWins ==
    /\ FooAtDefault
    /\ <<"g">> \in DOMAIN params
    /\ Descriptor(<<"g">>).param_type = PARAM_TYPE_BOOL
    /\ last = [op |-> "acquire", cls |-> "none"]
    /\ Bind(ProcessCmdLine(St0, <<<<"-","f">>, <<"b">>, <<"-","-","f","o","o","=","d">>>>),
            LAMBDA r : r.err = NoErr /\ Stored(r.vals, Foo) = StrV(<<"d">>))
    /\ Bind(ProcessCmdLine(St0, <<<<"-","g">>>>),
            LAMBDA r : r.err = NoErr /\ Stored(r.vals, <<"g">>) = BoolV(TRUE))
    /\ ProcessCmdLine(St0, <<<<"-","x">>>>)
         = [St0 EXCEPT !.err = [cls |-> "ParamError",
                                msg |-> <<"Command line option", ": ",
                                          "option -", "x", " not recognized">>]]

\* values validate is called with
ValidateMenu == {IntV(3), IntV(20), IntV(5), IntV(40), StrV(<<"3">>), StrV(<<"2", "0">>),
                 StrV(<<"5">>), StrV(<<"x">>)}

\* C17: a descriptor with both allowed_values and allowed_range accepts a
\* value exactly if the value converts to the type of the parameter and the
\* converted value is one of the allowed values, inside the range or not.
C17_AllowedValuesFirst ==
    \A i \in DOMAIN objs :
        Truthy(objs[i].allowed_values) /\ Truthy(objs[i].allowed_range) /\ ~objs[i].ignore =>
            \A val \in ValidateMenu :
                Bind(ParamTypeCheck(objs[i].name, objs[i].param_type, val),
                     LAMBDA c : Validate(objs[i], val).err = NoErr
                                  <=> (~Raised(c) /\ InList(c.ret, objs[i].allowed_values.v)))

\* the declaration a is of a BOOLEAN with allowed values or an allowed range
ConstrainedBoolean(a) ==
    /\ a.param_type = PARAM_TYPE_BOOL
    /\ Truthy(a.allowed_values) \/ Truthy(a.allowed_range)

\* C18: add of a BOOLEAN parameter with allowed values or an allowed range
\* raises a ParamError and declares nothing, and no BOOLEAN descriptor ever
\* constructed has allowed_values or allowed_range other than None.
C18_NoConstrainedBoolean ==
    /\ \A a \in AddMenu :
          ConstrainedBoolean(a) =>
              Bind(AddOp(a), LAMBDA r : /\ r.err.cls = "ParamError"
                                        /\ r.objs = objs
                                        /\ r.params = params
                                        /\ r.by_conffile = params_by_conffile_name)
    /\ \A i \in DOMAIN objs :
          objs[i].param_type = PARAM_TYPE_BOOL =>
              IsNone(objs[i].allowed_values) /\ IsNone(objs[i].allowed_range)

\* a flag is declared and an add was refused; declaring a flag with allowed
\* values or with an allowed range is refused for that reason
C18_BooleanRefused ==
    /\ \E i \in DOMAIN objs : objs[i].param_type = PARAM_TYPE_BOOL
    /\ NameLiteral \notin DOMAIN params
    /\ last = [op |-> "add", cls |-> "ParamError"]
    /\ AddOp(DeclFlagValues).err
         = ParamError(DeclFlagValues.name,
                      <<"Allowed values or range not allowed for boolean.">>)
    /\ AddOp(DeclFlagRange).err
         = ParamError(DeclFlagRange.name,
                      <<"Allowed values or range not allowed for boolean.">>)

\* values _bool_check is called with
BoolInputs ==
    {BoolV(TRUE), BoolV(FALSE), IntV(1), IntV(0), IntV(7), NoneV,
     StrV(<<"y">>), StrV(<<"Y">>), StrV(<<"y","e","s">>),
     StrV(<<"y","E","s">>), StrV(<<"Y","E","S">>), StrV(<<"t","r","u","e">>),
     StrV(<<"T","R","U","E">>), StrV(<<"t","r","U","E">>), StrV(<<"1">>),
     StrV(<<"n">>), StrV(<<"N">>), StrV(<<"n","o">>),
     StrV(<<"n","O">>), StrV(<<"f","a","l","s","e">>), StrV(<<"f","A","L","S","e">>),
     StrV(<<"F","A","L","S","E">>), StrV(<<"0">>), StrV(<<"j","a">>),
     StrV(<<"n","e","i","n">>), StrV(<<"j">>), StrV(<<"t">>),
     StrV(<<"f">>), StrV(<<>>), StrV(<<"y","e","s"," ">>),
     StrV(<<"1","0">>), StrV(<<"o","n">>), StrV(<<"t","r","u">>),
     StrV(<<"n","o","p","e">>)}

\* the string s is the lower-case word w, in any mix of cases
IsWord(s, w) ==
    /\ Len(s) = Len(w)
    /\ \A i \in DOMAIN w : s[i] = w[i] \/ s[i] = UpperChar(w[i])

\* the string s is one of the words, in any mix of cases
OneOf(s, words) == \E w \in words : IsWord(s, w)

\* what the claim has _bool_check give for val: true, false, or None for a
\* failure
AsClaimed(val) ==
    IF val.t = "bool" THEN val
    ELSE IF val.t = "str"
            /\ OneOf(val.v, {<<"y">>, <<"y", "e", "s">>, <<"t", "r", "u", "e">>, <<"1">>})
    THEN BoolV(TRUE)
    ELSE IF val.t = "str"
            /\ OneOf(val.v, {<<"n">>, <<"n", "o">>, <<"f", "a", "l", "s", "e">>, <<"0">>})
    THEN BoolV(FALSE)
    ELSE NoneV

\* C19: _bool_check returns a boolean as it is, true for a string that is y,
\* yes, true or 1 and false for one that is n, no, false or 0, in any mix of
\* cases, and raises a ParamError for every other string and every value
\* that is neither a boolean nor a string, the integers 1 and 0 included; a
\* BOOLEAN descriptor validates a value to what _bool_check gives for it.
C19_BooleanCoercion ==
    /\ \A val \in BoolInputs :
          Bind(BoolCheck(val),
               LAMBDA r : IF IsNone(AsClaimed(val))
                          THEN Raised(r) /\ r.err.cls = "ParamError"
                          ELSE r = Return(AsClaimed(val)))
    /\ \A i \in DOMAIN objs :
          objs[i].param_type = PARAM_TYPE_BOOL /\ ~objs[i].ignore =>
              \A val \in BoolInputs \ {NoneV} :
                  Bind(Validate(objs[i], val),
                       LAMBDA r : IF IsNone(AsClaimed(val))
                                  THEN Raised(r) /\ r.err.cls = "ParamError"
                                  ELSE r = Return(AsClaimed(val)))

\* the flag v was declared with a default that came out true, and an add was
\* refused; the default yEs gives true, 0 as a string gives false, and the
\* integer 1 and the word j are refused
C19_DefaultsOfFlag ==
    /\ \E i \in DOMAIN objs : /\ objs[i].name = <<"v">>
                              /\ objs[i].default = BoolV(TRUE)
                              /\ value[i] = BoolV(TRUE)
    /\ last = [op |-> "add", cls |-> "ParamError"]
    /\ ParamInit(DeclV(StrV(<<"y","E","s">>))).val = BoolV(TRUE)
    /\ ParamInit(DeclV(StrV(<<"0">>))).val = BoolV(FALSE)
    /\ AddOp(DeclV(IntV(1))).err
         = ParamError(<<"v">>, <<"Cannot convert '", "1", "' to type '", "bool", "'.">>)
    /\ BoolCheck(StrV(<<"j">>)).err
         = [cls |-> "ParamError",
            msg |-> <<"Parameter '", "j", "': ", "Cannot be translated to boolean value.">>]

\* the name in upper case with "_" for every "-"
DerivedKey(name) ==
    [i \in DOMAIN name |-> IF name[i] = "-" THEN "_" ELSE UpperChar(name[i])]

\* the options derived from the name: its first character, and the name
\* itself as the long one unless it has one character only
DerivedFlags(name) ==
    TupleV(<<StrV(<<name[1]>>), IF Len(name) = 1 THEN NoneV ELSE StrV(name)>>)

\* what the claim says of the key of the descriptor d made by the add a that
\* gave the registry r
KeyAsClaimed(a, d, r) ==
    /\ a.conffile = NOT_DEFINED =>
          /\ d.conffile = StrV(DerivedKey(a.name))
          /\ DerivedKey(a.name) \in DOMAIN r.by_conffile
          /\ r.by_conffile[DerivedKey(a.name)] = Len(r.objs)
    /\ IsNone(a.conffile) =>
          /\ IsNone(d.conffile)
          /\ r.by_conffile = params_by_conffile_name

\* what the claim says of the options of that descriptor
FlagsAsClaimed(a, d, r) ==
    /\ a.cmd_line = NOT_DEFINED =>
          /\ d.cmd_line = DerivedFlags(a.name)
          /\ <<a.name[1]>> \in r.shorts
          /\ Len(a.name) > 1 => a.name \in r.longs
          /\ Len(a.name) = 1 => r.longs = all_long_opts_so_far
    /\ IsNone(a.cmd_line) =>
          /\ IsNone(d.cmd_line)
          /\ r.shorts = all_short_opts_so_far
          /\ r.longs = all_long_opts_so_far

\* C20: the descriptor of an accepted add has, with conffile omitted, the
\* name in upper case with "_" for "-" as its key, and with cmd_line omitted
\* the first character of the name and the name as its options, the long
\* one None for a name of one character; with None passed for conffile or
\* cmd_line it has no key or no options, and none is registered for it.
C20_DerivedKeyAndFlags ==
    \A a \in AddMenu :
        Bind(AddOp(a),
             LAMBDA r : r.err = NoErr =>
                          /\ Len(r.objs) = Len(objs) + 1
                          /\ KeyAsClaimed(a, r.objs[Len(r.objs)], r)
                          /\ FlagsAsClaimed(a, r.objs[Len(r.objs)], r))

\* a-b and g are declared, with the key A_B and the options -a/--a-b, and
\* with -g and no long option; bar, declared with its key and None for
\* cmd_line, would get no option
C20_DashAndOneCharacter ==
    /\ <<"a", "-", "b">> \in DOMAIN params
    /\ Descriptor(<<"a", "-", "b">>).conffile = StrV(<<"A", "_", "B">>)
    /\ Descriptor(<<"a", "-", "b">>).cmd_line
         = TupleV(<<StrV(<<"a">>), StrV(<<"a", "-", "b">>)>>)
    /\ params_by_conffile_name[<<"A", "_", "B">>] = params[<<"a", "-", "b">>]
    /\ <<"g">> \in DOMAIN params
    /\ Descriptor(<<"g">>).conffile = StrV(<<"G">>)
    /\ Descriptor(<<"g">>).cmd_line = TupleV(<<StrV(<<"g">>), NoneV>>)
    /\ all_short_opts_so_far = {<<"a">>, <<"g">>}
    /\ all_long_opts_so_far = {<<"a", "-", "b">>}
    /\ Bind(AddOp(DeclBar),
            LAMBDA r : /\ r.err = NoErr
                       /\ IsNone(r.objs[Len(r.objs)].cmd_line)
                       /\ r.shorts = all_short_opts_so_far)

\* the five types of the claim: the three of this source and the list and
\* dict types that src/test.py imports
FiveTypes == PARAM_TYPES_ALLOWED \cup {"str-list", "str-dict"}

\* the error of a declaration of an unknown type
UnknownType(a) ==
    ParamError(a.name, <<"Unknown parameter type '", a.param_type, "'.">>)

\* C21: add raises the unknown-parameter-type error for a declaration whose
\* type is none of the five types, and for no declaration of one of the five.
C21_FiveTypes ==
    \A a \in AddMenu :
        Bind(AddOp(a),
             LAMBDA r : /\ a.param_type \notin FiveTypes /\ ~NameDeclared(a.name)
                             => r.err = UnknownType(a)
                        /\ r.err = UnknownType(a) => a.param_type \notin FiveTypes)

\* raw values of a list parameter, each with the list the claim gives for it
ListCases ==
    {[raw |-> StrV(<<"1",",","2",",","3">>), list |-> <<StrV(<<"1">>), StrV(<<"2">>), StrV(<<"3">>)>>],
     [raw |-> StrV(<<",","1",",",",","3",",">>),
      list |-> <<StrV(<<>>), StrV(<<"1">>), StrV(<<>>), StrV(<<"3">>), StrV(<<>>)>>],
     [raw |-> StrV(<<"1",":","3">>), list |-> <<StrV(<<"1",":","3">>)>>],
     [raw |-> StrV(<<"1"," ",","," "," ","2">>), list |-> <<StrV(<<"1">>), StrV(<<"2">>)>>],
     [raw |-> ListV(<<IntV(1), StrV(<<"3">>), BoolV(TRUE)>>),
      list |-> <<IntV(1), StrV(<<"3">>), BoolV(TRUE)>>]}

\* C22: a list parameter declared with a raw default holds the list the
\* claim gives: a sequence as it is, a string split on "," with every
\* segment stripped and the empty segments kept.
C22_ListCoercion ==
    \A c \in ListCases :
        Bind(AddOp(DeclList(c.raw)),
             LAMBDA r : /\ r.err = NoErr
                        /\ Len(r.value) = Len(value) + 1
                        /\ r.value[Len(r.value)] = ListV(c.list))

\* the sections of the documented parameters that have a name
NamedSections ==
    {d[1] : d \in {ParamDoc(objs[params[n]]) : n \in DOMAIN params}} \ {NoneV}

\* the section names in the order the documentation is to show them: the
\* configured order, else the alphabetical order that ignores case
ClaimedOrder ==
    IF Truthy(doc_section_order)
    THEN SelectSeq(doc_section_order.v, LAMBDA sec : sec \in NamedSections)
    ELSE [i \in DOMAIN SortByLower(KeyList(NamedSections))
            |-> StrV(SortByLower(KeyList(NamedSections))[i])]

\* the heading lines of a make_doc output: those not indented further
Headings(out, indent) ==
    SelectSeq(SplitOn(out, "\n"), LAMBDA l : Len(l) > indent /\ l[indent + 1] # " ")

\* the lines of a make_doc output that describe options, without their indent
OptionLines(out, indent) ==
    SelectSeq(SplitOn(out, "\n"),
              LAMBDA l : Len(l) > indent + 4 /\ l[indent + 1] = " " /\ l[indent + 5] = "-")

\* C23: make_doc returns for every registry, one with an option-bound
\* parameter without section included; the headings of its output are the
\* named sections in the configured doc_section_order, else in alphabetical
\* order ignoring case, and every documented parameter has its option line
C23_DocGroupedAndOrdered ==
    \A indent \in IndentMenu :
        Bind(MakeDocOp(indent),
             LAMBDA r : /\ r.err = NoErr
                        /\ Headings(r.ret.v, indent)
                             = [i \in DOMAIN ClaimedOrder
                                  |-> Spaces(indent) \o ClaimedOrder[i].v \o <<":">>]
                        /\ Len(OptionLines(r.ret.v, indent)) = Len(DocsOf(RefsFrom(1))))

\* the Python type of the values of a parameter type
TypeTag(param_type) ==
    CASE param_type = PARAM_TYPE_STR  -> "str"
      [] param_type = PARAM_TYPE_INT  -> "int"
      [] param_type = PARAM_TYPE_BOOL -> "bool"

\* x is of the type of the descriptor p and satisfies its constraints
Permitted(p, x) ==
    /\ x.t = TypeTag(p.param_type)
    /\ Truthy(p.allowed_values) => InList(x, p.allowed_values.v)
    /\ Truthy(p.allowed_range) =>
          PyLe(p.allowed_range.v["min"], x) /\ PyLe(x, p.allowed_range.v["max"])

\* C24: whatever calls were made, with or without success, the value of
\* every parameter that is not ignored is None or a value of the declared
\* type that is among the allowed values and inside the allowed range where
\* these are given, and validate returns it unchanged.
C24_StoredValuesValid ==
    \A i \in DOMAIN objs :
        ~objs[i].ignore /\ ~IsNone(value[i]) =>
            /\ Permitted(objs[i], value[i])
            /\ Validate(objs[i], value[i]) = Return(value[i])

\* an acquire has failed and num, limited to 1..9, holds the 7 an earlier
\* line of the config file gave it
C24_ValidAfterFailure ==
    /\ last.op = "acquire"
    /\ last.cls = "ParamError"
    /\ Num \in DOMAIN params
    /\ Truthy(Descriptor(Num).allowed_range)
    /\ Stored(value, Num) = IntV(7)
    /\ Raised(Validate(Descriptor(Num), IntV(40)))

\* the name of the descriptor the config-file key k is registered for
NameOfKey(k) == objs[params_by_conffile_name[k]].name

\* C25: every registered config-file key maps to the descriptor stored
\* under its own name: get_by_conffile_name(key) returns what get(name)
\* returns, and a value set by name is read back by the key.
C25_IndexesAgree ==
    \A k \in DOMAIN params_by_conffile_name :
        /\ NameOfKey(k) \in DOMAIN params
        /\ params[NameOfKey(k)] = params_by_conffile_name[k]
        /\ GetByConffileNameOp(value, k).ret = GetOp(value, NameOfKey(k)).ret
        /\ \A raw \in RawMenu :
              Bind(SetOp(value, NameOfKey(k), raw),
                   LAMBDA r : r.err = NoErr /\ ~Descriptor(NameOfKey(k)).ignore =>
                                GetByConffileNameOp(r.vals, k).ret
                                  = Validate(Descriptor(NameOfKey(k)), raw).ret)

\* C26: an add that raises leaves the registry as it was: no descriptor
\* and no value is added, and no name, no config-file key, no short option
\* and no long option is registered or reserved.
C26_FailedAddChangesNothing ==
    \A a \in AddMenu :
        Bind(AddOp(a),
             LAMBDA r : r.err # NoErr =>
                          /\ r.objs = objs
                          /\ r.value = value
                          /\ r.params = params
                          /\ r.by_conffile = params_by_conffile_name
                          /\ r.shorts = all_short_opts_so_far
                          /\ r.longs = all_long_opts_so_far)

\* a config file that sets num and nothing else
FileNum == TextFile(<<<<"N","U","M"," ","7">>>>)

\* acquire calls that may raise after an assignment (src), each with the
\* call that stops short of what src raises for (rest): the second line of
\* the file, the variable of the environment, the last option, the sweep
RollbackCases ==
    {Occurrence(In(<<>>, NoneV, NoneV, BoolV(TRUE), Fs(FileBad, NoFile, NoFile), Env(<<>>, <<>>)),
                In(<<>>, NoneV, NoneV, BoolV(TRUE), Fs(FileNum, NoFile, NoFile), Env(<<>>, <<>>))),
     Occurrence(In(<<>>, NoneV, NoneV, BoolV(TRUE), Fs(FileNum, NoFile, NoFile), Env(<<"x">>, <<>>)),
                In(<<>>, NoneV, NoneV, BoolV(TRUE), Fs(FileNum, NoFile, NoFile), Env(<<>>, <<>>))),
     Occurrence(In(<<<<"-","n">>, <<"3">>, <<"-","f">>, <<"x">>>>, NoneV, NoneV, BoolV(TRUE),
                   Fs(FileNum, NoFile, NoFile), Env(<<"c">>, <<>>)),
                In(<<<<"-","n">>, <<"3">>>>, NoneV, NoneV, BoolV(TRUE),
                   Fs(FileNum, NoFile, NoFile), Env(<<"c">>, <<>>))),
     Occurrence(In(<<<<"-","g">>, <<"-","f">>, <<"x">>>>, NoneV, NoneV, BoolV(TRUE),
                   Fs(NoFile, NoFile, NoFile), Env(<<"c">>, <<>>)),
                In(<<<<"-","g">>>>, NoneV, NoneV, BoolV(TRUE),
                   Fs(NoFile, NoFile, NoFile), Env(<<"c">>, <<>>))),
     Occurrence(In(<<<<"-","n">>, <<"3">>>>, NoneV, NoneV, BoolV(FALSE),
                   Fs(FileNum, NoFile, NoFile), Env(<<>>, <<>>)),
                In(<<<<"-","n">>, <<"3">>>>, NoneV, NoneV, BoolV(TRUE),
                   Fs(FileNum, NoFile, NoFile), Env(<<>>, <<>>))),
     Occurrence(In(<<>>, NoneV, NoneV, BoolV(FALSE), Fs(FileB, NoFile, NoFile), Env(<<"c">>, <<>>)),
                In(<<>>, NoneV, NoneV, BoolV(TRUE), Fs(FileB, NoFile, NoFile), Env(<<"c">>, <<>>)))}

\* the call c.src raises, and for nothing that c.rest still holds; getopt,
\* which runs before any option is applied, takes all its options
RaisesAtTheEnd(c) ==
    /\ \E o \in AcquireOutcomes(c.src) : o.err # NoErr
    /\ Getopt(<<>>, c.src.args, ShortOptsStr(RefsFrom(1)), LongOptsList(RefsFrom(1))).err = NoErr
    /\ \A o \in AcquireOutcomes(c.rest) : o.err = NoErr

\* the values vals are those the call of inputs in leaves when it returns,
\* and get returns them
LeftBy(in, vals) ==
    /\ \E o \in AcquireOutcomes(in) : o.vals = vals
    /\ \A n \in KeysOp : GetOp(vals, n) = Return(Stored(vals, n))

\* C27: an acquire that raises at a line of the config file, in the
\* environment phase, in the command-line phase or in the sweep leaves every
\* value assigned before that point in place: the values are those of the
\* call that stops short of the failure, and get returns them.
C27_NoRollback ==
    \A c \in RollbackCases :
        RaisesAtTheEnd(c) =>
            \A o \in AcquireOutcomes(c.src) : o.err # NoErr => LeftBy(c.rest, o.vals)

\* an acquire has raised for the second line of its config file, and num has
\* the value of the first line; before the call it had none
C27_FirstLineKept ==
    /\ last.op = "acquire"
    /\ last.cls = "ParamError"
    /\ config_file = StrV(PathOne)
    /\ Num \in DOMAIN params /\ Foo \in DOMAIN params
    /\ IsNone(Descriptor(Num).default)
    /\ Stored(value, Num) = IntV(7)
    /\ FooAtDefault
    /\ \E c \in RollbackCases : c.src.fs[PathOne] = FileBad /\ RaisesAtTheEnd(c)

\* C28: when an acquire returns, the same acquire made again, with the same
\* config files, environment and arguments, returns too and leaves every
\* parameter with the value it had after the first.
C28_AcquireIdempotent ==
    \A in \in AcquireInputs :
        \A first \in AcquireOutcomes(in) :
            first.err = NoErr =>
                \A second \in AcquireFrom(Phase(NoErr, first.vals, first.config_file), in) :
                    /\ second.err = NoErr
                    /\ second.vals = first.vals

\* an acquire has returned and foo has the value of the command line, not
\* its default; the acquire that gives it that value leaves all as it is
C28_SecondAcquireSame ==
    /\ last = Call("acquire", NoErr)
    /\ Foo \in DOMAIN params
    /\ Stored(value, Foo) = StrV(FooOnCmdLine)
    /\ Descriptor(Foo).default # StrV(FooOnCmdLine)
    /\ \E in \in AcquireInputs :
          /\ in.args # <<>>
          /\ in.fs[PathOne] = FileB
          /\ \A o \in AcquireOutcomes(in) : o = Phase(NoErr, value, config_file)

\* the parameters for which bound holds keep their values in vals
Untouched(vals, bound(_)) ==
    \A n \in DOMAIN params : bound(Descriptor(n)) => Stored(vals, n) = Stored(value, n)

\* the call of inputs in has no config file, no variable and no argument
NoSource(in) ==
    /\ in.args = <<>>
    /\ \A f \in DOMAIN in.fs : in.fs[f] = NoFile
    /\ DOMAIN in.environ = {}

\* C29: the config-file phase and the environment phase leave the value of
\* every parameter without config-file key as it was, the command-line phase
\* that of every parameter without options, and an acquire with no source
\* leaves every value as it was.
C29_OnlyNamedParametersChange ==
    \A in \in AcquireInputs :
        /\ Untouched(ProcessConfigFile(St0, in.fs, in.config_filename).vals,
                     LAMBDA p : IsNone(p.conffile))
        /\ \A order \in Orders(KeysInEnviron(in.environ, in.env_prefix)) :
              Untouched(ProcessEnvVars(St0, in.environ, in.env_prefix, order).vals,
                        LAMBDA p : IsNone(p.conffile))
        /\ Untouched(ProcessCmdLine(St0, in.args).vals, LAMBDA p : IsNone(p.cmd_line))
        /\ NoSource(in) => \A o \in AcquireOutcomes(in) : o.vals = value

\* a value just above the upper bound hi
Beyond(hi) == IF hi.t = "int" THEN IntV(hi.v + 1) ELSE StrV(hi.v \o <<"z">>)

\* the descriptor p accepts the bounds lo and hi and nothing beyond hi
EnforcedInclusively(p, lo, hi) ==
    /\ Validate(p, lo) = Return(lo)
    /\ Validate(p, hi) = Return(hi)
    /\ Raised(Validate(p, Beyond(hi)))

\* C30: a declaration with an allowed_range of the keys min and max whose
\* bounds convert to the type of the parameter is accepted, bounds that
\* convert to 0 or to the empty string included, and validate then accepts
\* both bounds and rejects what lies beyond.
C30_FalsyBoundsAccepted ==
    \A a \in RangeMenu :
        Bind(AddOp(a),
             LAMBDA r : /\ r.err = NoErr
                        /\ Len(r.objs) = Len(objs) + 1
                        /\ EnforcedInclusively(r.objs[Len(r.objs)],
                               ParamTypeCheck(a.name, a.param_type, a.allowed_range.v["min"]).ret,
                               ParamTypeCheck(a.name, a.param_type, a.allowed_range.v["max"]).ret))
====
